---- MODULE Spec2Model ----
(***************************************************************************)
(* Model of the constellation topology engine.                             *)
(*   src/src/watcher.rs: the four reflector stores, the four per-kind      *)
(*     watcher tasks, the initial bulk build and the forest `hierarchy`    *)
(*     they maintain under one RwLock (Spec, SpecBuilt, SpecLock);         *)
(*   src/src/router.rs: the readers of the forest (SpecLock);              *)
(*   src/src/controller.rs: the Graph and its reconcilers (SpecController).*)
(***************************************************************************)
EXTENDS Integers, Sequences, FiniteSets, TLC

VARIABLES
    hierarchy,        \* State.hierarchy: Vec<HierarchyNode>, the forest
    pod_store,        \* Context.pod_store: reflector Store<Pod>
    service_store,    \* Context.service_store
    namespace_store,  \* Context.namespace_store
    httproute_store,  \* Context.httproute_store
    ready,            \* per kind: the store's initial list is complete
    pc,               \* position of every task
    ev,               \* per watcher task: the notification being handled
    snap,             \* per task: the store snapshots it has read
    lock,             \* writer currently holding State.hierarchy, or "free"
    last,             \* history: the last mutation committed to the forest,
                      \* with the snapshots it used and the forest before it
    feed,             \* the cluster: initial lists and deliverable objects
    chg,              \* history: a selector change that unselected a pod
    rd,               \* readers of State.hierarchy: guards held, and whether
                      \* one was taken while a handler was between its steps
    graph,            \* controller.rs State.graph: nodes, edges, reverse
    state_updates,    \* the broadcast channel of published forests, as
                      \* its receiver sees it, with the history of sends
    ws,               \* router.rs handle_socket: the subscriber's task
    http,             \* router.rs state and healthz: the request in hand
    failed,           \* history: the kinds whose stream has yielded an Err
    arg,              \* a helper function called on its own: its argument
    ret,              \* and what it returned
    nEvents           \* number of notifications delivered so far

vars == <<hierarchy, pod_store, service_store, namespace_store,
          httproute_store, ready, pc, ev, snap, lock, last, feed, chg, rd,
          graph, failed, arg, ret, state_updates, ws, http, nEvents>>

(***************************************************************************)
(* Bounds                                                                  *)
(***************************************************************************)
MaxEvents == 2

(***************************************************************************)
(* Option<T> is a set with at most one element.                            *)
(***************************************************************************)
None == {}
Some(x) == {x}
IsSome(o) == o # {}
UnwrapStr(o) == IF o = {} THEN "" ELSE CHOOSE x \in o : TRUE
UnwrapMap(o) == IF o = {} THEN {} ELSE CHOOSE x \in o : TRUE

(***************************************************************************)
(* Object universe.  A label/selector map is a set of <<key, value>>       *)
(* pairs with distinct keys.                                               *)
(***************************************************************************)
NsOrder == <<"a", "b">>
NameOrder == <<"x", "y">>
NsNames == {NsOrder[i] : i \in 1..Len(NsOrder)}
ObjNames == {NameOrder[i] : i \in 1..Len(NameOrder)}

Web == {<<"app", "web">>}
Api == {<<"app", "api">>}
Pod(ns, name, labels) == [name |-> Some(name), ns |-> Some(ns), labels |-> labels]
Service(ns, name, selector) ==
    [name |-> Some(name), ns |-> Some(ns), selector |-> selector]
HTTPRoute(ns, name, refs) == [name |-> Some(name), ns |-> Some(ns), refs |-> refs]
Namespace(name) == [name |-> Some(name), ns |-> None]
ServiceRef(name) == [kind |-> Some("Service"), name |-> name]

\* The cluster the watchers are run against: the initial lists the stores
\* may start from and the objects the feeds may deliver afterwards.
MainFeed ==
    [initNamespaces |-> {{}, {Namespace("a")}},
     initPods |-> {{}, {Pod("a", "x", Some(Web))}},
     initServices |-> {{}, {Service("a", "x", Some(Web))}},
     initHTTPRoutes |-> {{}, {HTTPRoute("a", "x", <<ServiceRef("x")>>)}},
     namespaces |-> {Namespace("a")},
     pods |-> {Pod("a", "x", Some(Web)), Pod("a", "x", None)},
     services |-> {Service("a", "x", Some(Web)), Service("a", "x", Some(Api)),
                   Service("a", "y", Some(Web))},
     httproutes |-> {HTTPRoute("a", "x", <<ServiceRef("x")>>),
                     HTTPRoute("a", "x", <<>>)}]

\* Graph::default()
EmptyMap == [k \in {} |-> k]
EmptyGraph == [nodes |-> EmptyMap, edges |-> EmptyMap, reverse |-> EmptyMap]

Tasks == {"pod", "svc", "ns", "rt"}
NoEv == [type |-> "None"]
NoChg == [on |-> FALSE]
EmptySnap == [nss |-> <<>>, svcs |-> <<>>, pods |-> <<>>, routes |-> <<>>]

(***************************************************************************)
(* The broadcast channel State.state_updates that handle_socket subscribes *)
(* to.  With one receiver the channel is the receiver's view of it: the    *)
(* values it has not received yet, at most Capacity of them, and the       *)
(* number of older values that were overwritten before it received them.   *)
(* A send with no receiver stores nothing.  sent is the history of the     *)
(* values sent since the receiver subscribed.                              *)
(***************************************************************************)
Capacity == 2

NoReceiver == [open |-> FALSE, q |-> <<>>, missed |-> 0, sent |-> <<>>]

\* a sender that gives up on a full buffer instead of evicting the oldest
broadcast_send_unless_full(ch, value) ==
    IF ~ch.open \/ Len(ch.q) = Capacity THEN ch
    ELSE [ch EXCEPT !.q = Append(@, value), !.sent = Append(@, value)]

broadcast_send(ch, value) ==
    IF ~ch.open THEN ch
    ELSE IF Len(ch.q) = Capacity
         THEN [ch EXCEPT !.q = Append(Tail(@), value), !.missed = @ + 1,
                         !.sent = Append(@, value)]
         ELSE [ch EXCEPT !.q = Append(@, value), !.sent = Append(@, value)]

\* handle_socket has not been called
NoSocket == [pc |-> "off"]

\* no helper function is being called on its own
NoCall == [f |-> "none"]

\* no GET /state or GET /healthz is being served
NoRequest == [pc |-> "idle"]

(***************************************************************************)
(* Generic sequence helpers                                                *)
(***************************************************************************)
FoldSeq(Op(_, _), base, seq) ==
    LET f[i \in 0..Len(seq)] == IF i = 0 THEN base ELSE Op(f[i - 1], seq[i])
    IN f[Len(seq)]

MapSeq(Op(_), seq) == [i \in 1..Len(seq) |-> Op(seq[i])]

\* index of the first element satisfying Test, 0 when there is none
\* (Iterator::find / the `for ... { if ... { ...; break } }` idiom)
FirstIdx(seq, Test(_)) ==
    IF \E i \in 1..Len(seq) : Test(seq[i])
    THEN CHOOSE i \in 1..Len(seq) :
            Test(seq[i]) /\ \A j \in 1..(i - 1) : ~Test(seq[j])
    ELSE 0

(***************************************************************************)
(* Reflector stores: a store is a set of objects with distinct             *)
(* (namespace, name); state() lists it in the store's iteration order,     *)
(* which is fixed for given contents.                                      *)
(***************************************************************************)
SameKey(o1, o2) == o1.name = o2.name /\ o1.ns = o2.ns
StoreApply(store, obj) == {o \in store : ~SameKey(o, obj)} \cup {obj}
StoreDelete(store, obj) == {o \in store : ~SameKey(o, obj)}

KeySeq ==
    LET n == Len(NameOrder)
    IN [i \in 1..(Len(NsOrder) * n) |->
            <<NsOrder[((i - 1) \div n) + 1], NameOrder[((i - 1) % n) + 1]>>]

StoreState(store) ==
    LET present == SelectSeq(KeySeq, LAMBDA k :
                        \E o \in store : o.ns = Some(k[1]) /\ o.name = Some(k[2]))
    IN [i \in 1..Len(present) |->
            CHOOSE o \in store : o.ns = Some(present[i][1])
                                 /\ o.name = Some(present[i][2])]

NamespaceStoreState(store) ==
    LET present == SelectSeq(NsOrder, LAMBDA n : \E o \in store : o.name = Some(n))
    IN [i \in 1..Len(present) |-> CHOOSE o \in store : o.name = Some(present[i])]

(***************************************************************************)
(* Relationship rules and node constructors                                *)
(***************************************************************************)
selectors_match(selectors, labels) == \A kv \in selectors : kv \in labels

Referenced(refs, service_name) ==
    \E i \in 1..Len(refs) :
        refs[i].kind = Some("Service") /\ refs[i].name = service_name

Node(kind, name, mname, ns, selector, refs, labels) ==
    [kind |-> kind, name |-> name, mname |-> mname, ns |-> ns,
     selector |-> selector, refs |-> refs, labels |-> labels,
     relatives |-> <<>>]

new_namespace(namespace) ==
    Node("Namespace", UnwrapStr(namespace.name), namespace.name, namespace.ns,
         None, <<>>, None)

new_pod(pod) ==
    Node("Pod", UnwrapStr(pod.name), pod.name, pod.ns, None, <<>>, pod.labels)

new_service(service) ==
    Node("Service", UnwrapStr(service.name), service.name, service.ns,
         service.selector, <<>>, None)

new_httproute(httproute) ==
    Node("HTTPRoute", UnwrapStr(httproute.name), httproute.name, httproute.ns,
         None, httproute.refs, None)

\* the same collection without the namespace test
matching_pods_any_namespace(service, pods) ==
    MapSeq(new_pod,
           SelectSeq(pods, LAMBDA pod :
                selectors_match(UnwrapMap(service.selector),
                                UnwrapMap(pod.labels))))

\* the pods of the snapshot that a service node collects as children
matching_pods(service, pods) ==
    MapSeq(new_pod,
           SelectSeq(pods, LAMBDA pod :
                pod.ns = service.ns
                /\ selectors_match(UnwrapMap(service.selector),
                                   UnwrapMap(pod.labels))))

service_with_pods(service, pods) ==
    [new_service(service) EXCEPT !.relatives = matching_pods(service, pods)]

(***************************************************************************)
(* Removal of a node, by identity, from every level below a root           *)
(***************************************************************************)
RECURSIVE RemoveNode(_, _, _, _)
RemoveNode(node, kind, name, ns) ==
    LET kept == SelectSeq(node.relatives, LAMBDA c :
                    ~(c.kind = kind /\ c.name = name /\ c.ns = ns))
    IN [node EXCEPT !.relatives =
            [i \in 1..Len(kept) |-> RemoveNode(kept[i], kind, name, ns)]]

remove_pod_node(node, pod_name, pod_ns) ==
    RemoveNode(node, "Pod", pod_name, pod_ns)

\* removal of the nodes of one kind and name, whatever their namespace
RECURSIVE RemoveNamed(_, _, _)
RemoveNamed(node, kind, name) ==
    LET kept == SelectSeq(node.relatives, LAMBDA c :
                    ~(c.kind = kind /\ c.name = name))
    IN [node EXCEPT !.relatives =
            [i \in 1..Len(kept) |-> RemoveNamed(kept[i], kind, name)]]

\* the removal without the namespace test of line 561
remove_service_node_any_namespace(node, service_name, service_ns) ==
    RemoveNamed(node, "Service", service_name)

remove_service_node(node, service_name, service_ns) ==
    RemoveNode(node, "Service", service_name, service_ns)

remove_httproute_node(node, httproute_name, httproute_ns) ==
    RemoveNode(node, "HTTPRoute", httproute_name, httproute_ns)

\* index of the first root that is the Namespace node with metadata.name = ns
NamespaceIdx(h, ns) ==
    FirstIdx(h, LAMBDA n : n.kind = "Namespace" /\ n.mname = ns)

\* index of the first root that is the Namespace node with name = the string
NamespaceIdxByName(h, name) ==
    FirstIdx(h, LAMBDA n : n.kind = "Namespace" /\ n.name = name)

(***************************************************************************)
(* update_service_relationships                                            *)
(***************************************************************************)
update_service_relationships(h, service, pods) ==
    LET service_name == UnwrapStr(service.name)
        removed == [i \in 1..Len(h) |->
                        remove_service_node(h[i], service_name, service.ns)]
        idx == NamespaceIdx(removed, service.ns)
        full == service_with_pods(service, pods)
        IsRef(c) == c.kind = "HTTPRoute" /\ Referenced(c.refs, service_name)
        rels == removed[idx].relatives
        added == \E j \in 1..Len(rels) : IsRef(rels[j])
        underRoutes == [j \in 1..Len(rels) |->
                            IF IsRef(rels[j])
                            THEN [rels[j] EXCEPT !.relatives = Append(@, full)]
                            ELSE rels[j]]
    IN IF idx = 0 THEN removed
       ELSE [removed EXCEPT ![idx].relatives =
                IF added THEN underRoutes ELSE Append(underRoutes, full)]

(***************************************************************************)
(* update_httproute_relationships                                          *)
(***************************************************************************)
update_httproute_relationships(h, httproute, services, pods) ==
    LET httproute_name == UnwrapStr(httproute.name)
        removed == [i \in 1..Len(h) |->
                        remove_httproute_node(h[i], httproute_name, httproute.ns)]
        idx == NamespaceIdx(removed, httproute.ns)
        refd == SelectSeq(services, LAMBDA s :
                    s.ns = httproute.ns
                    /\ Referenced(httproute.refs, UnwrapStr(s.name)))
        httproute_node ==
            [new_httproute(httproute) EXCEPT !.relatives =
                [i \in 1..Len(refd) |-> service_with_pods(refd[i], pods)]]
    IN IF idx = 0 THEN removed
       ELSE [removed EXCEPT ![idx].relatives = Append(@, httproute_node)]

(***************************************************************************)
(* update_pod_relationships / add_pod_to_matching_services                 *)
(***************************************************************************)
\* the test with Route nodes let through as well
PodMatchesNodeOrRoute(node, pod) ==
    /\ node.kind \in {"Service", "HTTPRoute"}
    /\ node.ns = pod.ns
    /\ selectors_match(UnwrapMap(node.selector), UnwrapMap(pod.labels))

PodMatchesNode(node, pod) ==
    /\ node.kind = "Service"
    /\ node.ns = pod.ns
    /\ selectors_match(UnwrapMap(node.selector), UnwrapMap(pod.labels))

RECURSIVE add_pod_to_matching_services(_, _)
add_pod_to_matching_services(node, pod) ==
    LET rels == IF PodMatchesNode(node, pod)
                THEN Append(node.relatives, new_pod(pod))
                ELSE node.relatives
    IN [node EXCEPT !.relatives =
            [i \in 1..Len(rels) |-> add_pod_to_matching_services(rels[i], pod)]]

\* the value of the out-parameter pod_added after the traversal
RECURSIVE pod_added_to_service(_, _)
pod_added_to_service(node, pod) ==
    \/ PodMatchesNode(node, pod)
    \/ \E i \in 1..Len(node.relatives) :
            pod_added_to_service(node.relatives[i], pod)

update_pod_relationships(h, pod) ==
    LET pod_name == UnwrapStr(pod.name)
        removed == [i \in 1..Len(h) |-> remove_pod_node(h[i], pod_name, pod.ns)]
        idx == NamespaceIdx(removed, pod.ns)
        withPod == add_pod_to_matching_services(removed[idx], pod)
    IN IF idx = 0 THEN removed
       ELSE IF pod_added_to_service(removed[idx], pod)
            THEN [removed EXCEPT ![idx] = withPod]
            ELSE [removed EXCEPT ![idx].relatives = Append(@, new_pod(pod))]

(***************************************************************************)
(* build_initial_relationships: the bulk build over the four snapshots.    *)
(* The accumulator carries the forest and the set assigned_nodes.          *)
(***************************************************************************)
Repeat(x, k) == [i \in 1..k |-> x]

PushUnder(h, idx, node) ==
    IF idx = 0 THEN h ELSE [h EXCEPT ![idx].relatives = Append(@, node)]

build_httproute(h, httproute) ==
    PushUnder(h, NamespaceIdx(h, httproute.ns), new_httproute(httproute))

build_service(acc, service, pods) ==
    LET service_namespace == UnwrapStr(service.ns)
        service_name == UnwrapStr(service.name)
        mine == SelectSeq(pods, LAMBDA pod :
                    /\ IsSome(pod.ns)
                    /\ UnwrapStr(pod.ns) = service_namespace
                    /\ IsSome(service.selector) /\ IsSome(pod.labels)
                    /\ selectors_match(UnwrapMap(service.selector),
                                       UnwrapMap(pod.labels)))
        service_node == [new_service(service) EXCEPT
                            !.relatives = MapSeq(new_pod, mine)]
        podNames == {UnwrapStr(mine[i].name) : i \in 1..Len(mine)}
        idx == NamespaceIdx(acc.h, service.ns)
        rels == acc.h[idx].relatives
        Hits(c) == IF c.kind = "HTTPRoute"
                   THEN Cardinality({i \in 1..Len(c.refs) :
                            /\ c.refs[i].kind = Some("Service")
                            /\ c.refs[i].name = service_name})
                   ELSE 0
        added == idx # 0 /\ \E j \in 1..Len(rels) : Hits(rels[j]) > 0
        underRoutes == [acc.h EXCEPT ![idx].relatives =
                            [j \in 1..Len(rels) |->
                                [rels[j] EXCEPT !.relatives =
                                    @ \o Repeat(service_node, Hits(rels[j]))]]]
    IN IF added
       THEN [h |-> underRoutes,
             assigned |-> acc.assigned \cup podNames \cup {service_name}]
       ELSE IF idx # 0
            THEN [h |-> PushUnder(acc.h, idx, service_node),
                  assigned |-> acc.assigned \cup podNames \cup {service_name}]
            ELSE [h |-> acc.h, assigned |-> acc.assigned \cup podNames]

build_pod(acc, pod) ==
    IF UnwrapStr(pod.name) \in acc.assigned THEN acc
    ELSE [acc EXCEPT !.h =
            PushUnder(@, NamespaceIdxByName(@, UnwrapStr(pod.ns)), new_pod(pod))]

build_leftover_service(acc, service) ==
    IF UnwrapStr(service.name) \in acc.assigned THEN acc
    ELSE [acc EXCEPT !.h =
            PushUnder(@, NamespaceIdxByName(@, UnwrapStr(service.ns)),
                      new_service(service))]

build_initial_relationships(h, s) ==
    LET h1 == h \o MapSeq(new_namespace, s.nss)
        h2 == FoldSeq(build_httproute, h1, s.routes)
        a3 == FoldSeq(LAMBDA acc, svc : build_service(acc, svc, s.pods),
                      [h |-> h2, assigned |-> {}], s.svcs)
        a4 == FoldSeq(build_pod, a3, s.pods)
        a5 == FoldSeq(build_leftover_service, a4, s.svcs)
    IN a5.h

(***************************************************************************)
(* namespace_watcher, Event::Apply: create the root and rescan the caches  *)
(***************************************************************************)
RECURSIVE check_pod_in_hierarchy(_, _)
check_pod_in_hierarchy(node, pod_name) ==
    \/ node.kind = "Pod" /\ node.name = pod_name
    \/ \E i \in 1..Len(node.relatives) :
            check_pod_in_hierarchy(node.relatives[i], pod_name)

HasRoot(h, namespace_name) ==
    \E i \in 1..Len(h) : h[i].kind = "Namespace" /\ h[i].name = namespace_name

rescan_pod(h, pod, namespace_name) ==
    LET idx == NamespaceIdxByName(h, namespace_name)
    IN IF pod.ns # Some(namespace_name) THEN h
       ELSE IF idx # 0 /\ check_pod_in_hierarchy(h[idx], UnwrapStr(pod.name))
            THEN h
            ELSE PushUnder(h, idx, new_pod(pod))

namespace_apply(h, namespace, s) ==
    LET namespace_name == UnwrapStr(namespace.name)
        h1 == Append(h, new_namespace(namespace))
        h2 == FoldSeq(LAMBDA acc, r :
                        IF r.ns = Some(namespace_name)
                        THEN update_httproute_relationships(acc, r, s.svcs, s.pods)
                        ELSE acc,
                      h1, s.routes)
        h3 == FoldSeq(LAMBDA acc, svc :
                        IF svc.ns = Some(namespace_name)
                        THEN update_service_relationships(acc, svc, s.pods)
                        ELSE acc,
                      h2, s.svcs)
        h4 == FoldSeq(LAMBDA acc, pod : rescan_pod(acc, pod, namespace_name),
                      h3, s.pods)
    IN IF HasRoot(h, namespace_name) THEN h ELSE h4

\* a Delete that drops the root only when nothing hangs beneath it
namespace_delete_if_childless(h, namespace) ==
    SelectSeq(h, LAMBDA n :
        ~(n.kind = "Namespace" /\ n.name = UnwrapStr(namespace.name)
            /\ n.relatives = <<>>))

namespace_delete(h, namespace) ==
    SelectSeq(h, LAMBDA n :
        ~(n.kind = "Namespace" /\ n.name = UnwrapStr(namespace.name)))

(***************************************************************************)
(* httproute_watcher, Event::Delete: remove the route, re-apply services   *)
(***************************************************************************)
httproute_delete(h, httproute, s) ==
    LET removed == [i \in 1..Len(h) |->
                        remove_httproute_node(h[i], UnwrapStr(httproute.name),
                                              httproute.ns)]
    IN FoldSeq(LAMBDA acc, svc :
                    IF svc.ns = httproute.ns
                    THEN update_service_relationships(acc, svc, s.pods)
                    ELSE acc,
               removed, s.svcs)

pod_delete(h, pod) ==
    [i \in 1..Len(h) |-> remove_pod_node(h[i], UnwrapStr(pod.name), pod.ns)]

service_delete(h, service) ==
    [i \in 1..Len(h) |->
        remove_service_node(h[i], UnwrapStr(service.name), service.ns)]

(***************************************************************************)
(* Initial state: State::default(), empty stores, tasks spawned            *)
(***************************************************************************)
StartFrom(f) ==
    /\ hierarchy = <<>>
    /\ pod_store = {}
    /\ service_store = {}
    /\ namespace_store = {}
    /\ httproute_store = {}
    /\ ready = [k \in Tasks |-> FALSE]
    /\ pc = [t \in Tasks \cup {"build"} |-> IF t = "build" THEN "wait" ELSE "idle"]
    /\ ev = [t \in Tasks |-> NoEv]
    /\ snap = [t \in Tasks \cup {"build"} |-> EmptySnap]
    /\ lock = "free"
    /\ last = [op |-> "None"]
    /\ feed = f
    /\ chg = NoChg
    /\ rd = [n |-> 0, torn |-> FALSE]
    /\ graph = EmptyGraph
    /\ state_updates = NoReceiver
    /\ ws = NoSocket
    /\ http = NoRequest
    /\ failed = {}
    /\ arg = NoCall /\ ret = NoCall
    /\ nEvents = 0

Init == StartFrom(MainFeed)

Caches == <<pod_store, service_store, namespace_store, httproute_store, feed, rd,
           graph, failed, arg, ret, ws, http>>

Stores == <<Caches, state_updates>>

\* a write lock that is granted while readers hold their guards
WriteLockFreeIgnoringReaders == lock = "free"

\* hierarchy.write().await returns: no writer and no reader holds the lock
WriteLockFree == lock = "free" /\ rd.n = 0

\* hierarchy.read().await returns: no writer holds the lock
ReadLockFree == lock = "free"

Finish(t) ==
    /\ state_updates' = broadcast_send(state_updates, hierarchy')
    /\ pc' = [pc EXCEPT ![t] = "idle"]
    /\ ev' = [ev EXCEPT ![t] = NoEv]
    /\ snap' = [snap EXCEPT ![t] = EmptySnap]

(***************************************************************************)
(* History of a move: a Service notification, delivered after the bulk     *)
(* build, whose selector stops matching a cached Pod it matched before;    *)
(* then whether that Pod has been delivered again and both handled.        *)
(***************************************************************************)
Selects(service, pod) ==
    /\ service.ns = pod.ns
    /\ selectors_match(UnwrapMap(service.selector), UnwrapMap(pod.labels))

ChgOnServiceEvent(type, o) ==
    LET lost == {p \in pod_store :
                    /\ ~Selects(o, p)
                    /\ \E old \in service_store : SameKey(old, o) /\ Selects(old, p)}
    IN IF type = "Apply" /\ pc["build"] = "done" /\ lost # {}
       THEN [on |-> TRUE, svc |-> o, pod |-> CHOOSE p \in lost : TRUE,
             podPolled |-> FALSE, podDone |-> FALSE, svcDone |-> FALSE]
       ELSE IF chg.on /\ SameKey(o, chg.svc) /\ ~(type = "Apply" /\ o = chg.svc)
            THEN NoChg
            ELSE chg

ChgOnPodEvent(type, o) ==
    IF chg.on /\ SameKey(o, chg.pod)
    THEN IF type = "Apply" /\ o = chg.pod
         THEN [chg EXCEPT !.podPolled = TRUE]
         ELSE NoChg
    ELSE chg

(***************************************************************************)
(* The reflectors: the initial list, then one notification at a time; the  *)
(* store is updated before the watcher task sees the event.                *)
(***************************************************************************)
InitListPod ==
    /\ ~ready["pod"]
    /\ \E l \in feed.initPods : pod_store' = l
    /\ ready' = [ready EXCEPT !["pod"] = TRUE]
    /\ UNCHANGED <<hierarchy, service_store, namespace_store, httproute_store,
                   pc, ev, snap, lock, last, feed, chg, rd, graph, failed, arg, ret,
                   state_updates, ws, http, nEvents>>

InitListService ==
    /\ ~ready["svc"]
    /\ \E l \in feed.initServices : service_store' = l
    /\ ready' = [ready EXCEPT !["svc"] = TRUE]
    /\ UNCHANGED <<hierarchy, pod_store, namespace_store, httproute_store,
                   pc, ev, snap, lock, last, feed, chg, rd, graph, failed, arg, ret,
                   state_updates, ws, http, nEvents>>

InitListNamespace ==
    /\ ~ready["ns"]
    /\ \E l \in feed.initNamespaces : namespace_store' = l
    /\ ready' = [ready EXCEPT !["ns"] = TRUE]
    /\ UNCHANGED <<hierarchy, pod_store, service_store, httproute_store,
                   pc, ev, snap, lock, last, feed, chg, rd, graph, failed, arg, ret,
                   state_updates, ws, http, nEvents>>

InitListHTTPRoute ==
    /\ ~ready["rt"]
    /\ \E l \in feed.initHTTPRoutes : httproute_store' = l
    /\ ready' = [ready EXCEPT !["rt"] = TRUE]
    /\ UNCHANGED <<hierarchy, pod_store, service_store, namespace_store,
                   pc, ev, snap, lock, last, feed, chg, rd, graph, failed, arg, ret,
                   state_updates, ws, http, nEvents>>

Deliver(t, type, obj) ==
    /\ ready[t] /\ pc[t] = "idle" /\ nEvents < MaxEvents
    /\ nEvents' = nEvents + 1
    /\ pc' = [pc EXCEPT ![t] = "got"]
    /\ ev' = [ev EXCEPT ![t] = [type |-> type, obj |-> obj]]
    /\ UNCHANGED <<hierarchy, ready, snap, lock, last, feed, rd, graph, failed, arg, ret,
                   state_updates, ws, http>>

PollPod ==
    /\ \/ \E o \in feed.pods :
            /\ Deliver("pod", "Apply", o)
            /\ pod_store' = StoreApply(pod_store, o)
            /\ chg' = ChgOnPodEvent("Apply", o)
       \/ \E o \in pod_store :
            /\ Deliver("pod", "Delete", o)
            /\ pod_store' = StoreDelete(pod_store, o)
            /\ chg' = ChgOnPodEvent("Delete", o)
    /\ UNCHANGED <<service_store, namespace_store, httproute_store>>

PollService ==
    /\ \/ \E o \in feed.services :
            /\ Deliver("svc", "Apply", o)
            /\ service_store' = StoreApply(service_store, o)
            /\ chg' = ChgOnServiceEvent("Apply", o)
       \/ \E o \in service_store :
            /\ Deliver("svc", "Delete", o)
            /\ service_store' = StoreDelete(service_store, o)
            /\ chg' = ChgOnServiceEvent("Delete", o)
    /\ UNCHANGED <<pod_store, namespace_store, httproute_store>>

PollNamespace ==
    /\ \/ \E o \in feed.namespaces :
            /\ Deliver("ns", "Apply", o)
            /\ namespace_store' = StoreApply(namespace_store, o)
       \/ \E o \in namespace_store :
            /\ Deliver("ns", "Delete", o)
            /\ namespace_store' = StoreDelete(namespace_store, o)
    /\ UNCHANGED <<pod_store, service_store, httproute_store, chg>>

PollHTTPRoute ==
    /\ \/ \E o \in feed.httproutes :
            /\ Deliver("rt", "Apply", o)
            /\ httproute_store' = StoreApply(httproute_store, o)
       \/ \E o \in httproute_store :
            /\ Deliver("rt", "Delete", o)
            /\ httproute_store' = StoreDelete(httproute_store, o)
    /\ UNCHANGED <<pod_store, service_store, namespace_store, chg>>

(***************************************************************************)
(* pod_watcher                                                             *)
(***************************************************************************)
PodApply ==
    /\ pc["pod"] = "got" /\ ev["pod"].type = "Apply" /\ WriteLockFree
    /\ hierarchy' = update_pod_relationships(hierarchy, ev["pod"].obj)
    /\ last' = [op |-> "PodApply", obj |-> ev["pod"].obj, snap |-> EmptySnap,
                pre |-> hierarchy]
    /\ chg' = IF chg.on /\ chg.podPolled /\ ev["pod"].obj = chg.pod
              THEN [chg EXCEPT !.podDone = TRUE] ELSE chg
    /\ Finish("pod")
    /\ UNCHANGED <<Caches, ready, lock, nEvents>>

PodDelete ==
    /\ pc["pod"] = "got" /\ ev["pod"].type = "Delete" /\ WriteLockFree
    /\ hierarchy' = pod_delete(hierarchy, ev["pod"].obj)
    /\ last' = [op |-> "PodDelete", obj |-> ev["pod"].obj, snap |-> EmptySnap,
                pre |-> hierarchy]
    /\ Finish("pod")
    /\ UNCHANGED <<Caches, ready, lock, chg, nEvents>>

(***************************************************************************)
(* service_watcher: the pod snapshot is read before the lock is taken      *)
(***************************************************************************)
ServiceSnapshot ==
    /\ pc["svc"] = "got" /\ ev["svc"].type = "Apply"
    /\ snap' = [snap EXCEPT !["svc"].pods = StoreState(pod_store)]
    /\ pc' = [pc EXCEPT !["svc"] = "snapped"]
    /\ UNCHANGED <<hierarchy, Stores, ready, ev, lock, last, chg, nEvents>>

ServiceApply ==
    /\ pc["svc"] = "snapped" /\ WriteLockFree
    /\ hierarchy' = update_service_relationships(hierarchy, ev["svc"].obj,
                                                 snap["svc"].pods)
    /\ last' = [op |-> "ServiceApply", obj |-> ev["svc"].obj, snap |-> snap["svc"],
                pre |-> hierarchy]
    /\ chg' = IF chg.on /\ ev["svc"].obj = chg.svc
              THEN [chg EXCEPT !.svcDone = TRUE] ELSE chg
    /\ Finish("svc")
    /\ UNCHANGED <<Caches, ready, lock, nEvents>>

ServiceDelete ==
    /\ pc["svc"] = "got" /\ ev["svc"].type = "Delete" /\ WriteLockFree
    /\ hierarchy' = service_delete(hierarchy, ev["svc"].obj)
    /\ last' = [op |-> "ServiceDelete", obj |-> ev["svc"].obj, snap |-> EmptySnap,
                pre |-> hierarchy]
    /\ Finish("svc")
    /\ UNCHANGED <<Caches, ready, lock, chg, nEvents>>

(***************************************************************************)
(* httproute_watcher.  Apply reads both snapshots before taking the lock;  *)
(* Delete takes the lock first and reads the snapshots while holding it.   *)
(***************************************************************************)
HTTPRouteSnapshotServices ==
    /\ pc["rt"] = "got" /\ ev["rt"].type = "Apply"
    /\ snap' = [snap EXCEPT !["rt"].svcs = StoreState(service_store)]
    /\ pc' = [pc EXCEPT !["rt"] = "snap_pods"]
    /\ UNCHANGED <<hierarchy, Stores, ready, ev, lock, last, chg, nEvents>>

HTTPRouteSnapshotPods ==
    /\ pc["rt"] = "snap_pods"
    /\ snap' = [snap EXCEPT !["rt"].pods = StoreState(pod_store)]
    /\ pc' = [pc EXCEPT !["rt"] = "snapped"]
    /\ UNCHANGED <<hierarchy, Stores, ready, ev, lock, last, chg, nEvents>>

HTTPRouteApply ==
    /\ pc["rt"] = "snapped" /\ WriteLockFree
    /\ hierarchy' = update_httproute_relationships(hierarchy, ev["rt"].obj,
                            snap["rt"].svcs, snap["rt"].pods)
    /\ last' = [op |-> "HTTPRouteApply", obj |-> ev["rt"].obj, snap |-> snap["rt"],
                pre |-> hierarchy]
    /\ Finish("rt")
    /\ UNCHANGED <<Caches, ready, lock, chg, nEvents>>

HTTPRouteDeleteLock ==
    /\ pc["rt"] = "got" /\ ev["rt"].type = "Delete" /\ WriteLockFree
    /\ lock' = "rt"
    /\ snap' = [snap EXCEPT !["rt"].svcs = StoreState(service_store)]
    /\ pc' = [pc EXCEPT !["rt"] = "del_snap_pods"]
    /\ UNCHANGED <<hierarchy, Stores, ready, ev, last, chg, nEvents>>

HTTPRouteDeleteSnapshotPods ==
    /\ pc["rt"] = "del_snap_pods"
    /\ snap' = [snap EXCEPT !["rt"].pods = StoreState(pod_store)]
    /\ pc' = [pc EXCEPT !["rt"] = "del_commit"]
    /\ UNCHANGED <<hierarchy, Stores, ready, ev, lock, last, chg, nEvents>>

HTTPRouteDelete ==
    /\ pc["rt"] = "del_commit" /\ lock = "rt"
    /\ hierarchy' = httproute_delete(hierarchy, ev["rt"].obj, snap["rt"])
    /\ last' = [op |-> "HTTPRouteDelete", obj |-> ev["rt"].obj, snap |-> snap["rt"],
                pre |-> hierarchy]
    /\ lock' = "free"
    /\ Finish("rt")
    /\ UNCHANGED <<Caches, ready, chg, nEvents>>

(***************************************************************************)
(* namespace_watcher.  Apply takes the lock, and when the root is new it   *)
(* reads the three snapshots while holding it.                             *)
(***************************************************************************)
NamespaceApplyKnown ==
    /\ pc["ns"] = "got" /\ ev["ns"].type = "Apply" /\ WriteLockFree
    /\ HasRoot(hierarchy, UnwrapStr(ev["ns"].obj.name))
    /\ last' = [op |-> "NamespaceApply", obj |-> ev["ns"].obj, snap |-> EmptySnap,
                pre |-> hierarchy]
    /\ UNCHANGED <<hierarchy, Caches, ready, lock, chg, nEvents>>
    /\ Finish("ns")

NamespaceApplyLock ==
    /\ pc["ns"] = "got" /\ ev["ns"].type = "Apply" /\ WriteLockFree
    /\ ~HasRoot(hierarchy, UnwrapStr(ev["ns"].obj.name))
    /\ lock' = "ns"
    /\ snap' = [snap EXCEPT !["ns"].svcs = StoreState(service_store)]
    /\ pc' = [pc EXCEPT !["ns"] = "snap_routes"]
    /\ UNCHANGED <<hierarchy, Stores, ready, ev, last, chg, nEvents>>

NamespaceSnapshotHTTPRoutes ==
    /\ pc["ns"] = "snap_routes"
    /\ snap' = [snap EXCEPT !["ns"].routes = StoreState(httproute_store)]
    /\ pc' = [pc EXCEPT !["ns"] = "snap_pods"]
    /\ UNCHANGED <<hierarchy, Stores, ready, ev, lock, last, chg, nEvents>>

NamespaceSnapshotPods ==
    /\ pc["ns"] = "snap_pods"
    /\ snap' = [snap EXCEPT !["ns"].pods = StoreState(pod_store)]
    /\ pc' = [pc EXCEPT !["ns"] = "commit"]
    /\ UNCHANGED <<hierarchy, Stores, ready, ev, lock, last, chg, nEvents>>

NamespaceApply ==
    /\ pc["ns"] = "commit" /\ lock = "ns"
    /\ hierarchy' = namespace_apply(hierarchy, ev["ns"].obj, snap["ns"])
    /\ last' = [op |-> "NamespaceApply", obj |-> ev["ns"].obj, snap |-> snap["ns"],
                pre |-> hierarchy]
    /\ lock' = "free"
    /\ Finish("ns")
    /\ UNCHANGED <<Caches, ready, chg, nEvents>>

NamespaceDelete ==
    /\ pc["ns"] = "got" /\ ev["ns"].type = "Delete" /\ WriteLockFree
    /\ hierarchy' = namespace_delete(hierarchy, ev["ns"].obj)
    /\ last' = [op |-> "NamespaceDelete", obj |-> ev["ns"].obj, snap |-> EmptySnap,
                pre |-> hierarchy]
    /\ Finish("ns")
    /\ UNCHANGED <<Caches, ready, lock, chg, nEvents>>

(***************************************************************************)
(* run_with_client: wait for the four stores, then the bulk build          *)
(***************************************************************************)
BuildSnapshotNamespaces ==
    /\ pc["build"] = "wait"
    /\ \A k \in Tasks : ready[k]
    /\ snap' = [snap EXCEPT !["build"].nss = NamespaceStoreState(namespace_store)]
    /\ pc' = [pc EXCEPT !["build"] = "snap_svcs"]
    /\ UNCHANGED <<hierarchy, Stores, ready, ev, lock, last, chg, nEvents>>

BuildSnapshotServices ==
    /\ pc["build"] = "snap_svcs"
    /\ snap' = [snap EXCEPT !["build"].svcs = StoreState(service_store)]
    /\ pc' = [pc EXCEPT !["build"] = "snap_pods"]
    /\ UNCHANGED <<hierarchy, Stores, ready, ev, lock, last, chg, nEvents>>

BuildSnapshotPods ==
    /\ pc["build"] = "snap_pods"
    /\ snap' = [snap EXCEPT !["build"].pods = StoreState(pod_store)]
    /\ pc' = [pc EXCEPT !["build"] = "snap_routes"]
    /\ UNCHANGED <<hierarchy, Stores, ready, ev, lock, last, chg, nEvents>>

BuildSnapshotHTTPRoutes ==
    /\ pc["build"] = "snap_routes"
    /\ snap' = [snap EXCEPT !["build"].routes = StoreState(httproute_store)]
    /\ pc' = [pc EXCEPT !["build"] = "snapped"]
    /\ UNCHANGED <<hierarchy, Stores, ready, ev, lock, last, chg, nEvents>>

Build ==
    /\ pc["build"] = "snapped" /\ WriteLockFree
    /\ hierarchy' = build_initial_relationships(hierarchy, snap["build"])
    /\ last' = [op |-> "Build", obj |-> [name |-> None, ns |-> None],
                snap |-> snap["build"], pre |-> hierarchy]
    /\ state_updates' = broadcast_send(state_updates, hierarchy')
    /\ pc' = [pc EXCEPT !["build"] = "done"]
    /\ snap' = [snap EXCEPT !["build"] = EmptySnap]
    /\ UNCHANGED <<Caches, ready, ev, lock, chg, nEvents>>

Startup ==
    \/ InitListPod \/ InitListService \/ InitListNamespace \/ InitListHTTPRoute
    \/ BuildSnapshotNamespaces \/ BuildSnapshotServices \/ BuildSnapshotPods
    \/ BuildSnapshotHTTPRoutes \/ Build

Watchers ==
    \/ PollPod \/ PollService \/ PollNamespace \/ PollHTTPRoute
    \/ PodApply \/ PodDelete
    \/ ServiceSnapshot \/ ServiceApply \/ ServiceDelete
    \/ HTTPRouteSnapshotServices \/ HTTPRouteSnapshotPods \/ HTTPRouteApply
    \/ HTTPRouteDeleteLock \/ HTTPRouteDeleteSnapshotPods \/ HTTPRouteDelete
    \/ NamespaceApplyKnown \/ NamespaceApplyLock
    \/ NamespaceSnapshotHTTPRoutes \/ NamespaceSnapshotPods
    \/ NamespaceApply \/ NamespaceDelete

Next == Startup \/ Watchers

Spec == Init /\ [][Next]_vars

(***************************************************************************)
(* The runs in which no notification arrives until the bulk build has      *)
(* finished: the state right after the build, then the watchers.           *)
(***************************************************************************)
BuiltFrom(f) ==
    /\ feed = f
    /\ pod_store \in feed.initPods
    /\ service_store \in feed.initServices
    /\ namespace_store \in feed.initNamespaces
    /\ httproute_store \in feed.initHTTPRoutes
    /\ LET s == [nss |-> NamespaceStoreState(namespace_store),
                 svcs |-> StoreState(service_store),
                 pods |-> StoreState(pod_store),
                 routes |-> StoreState(httproute_store)]
       IN /\ hierarchy = build_initial_relationships(<<>>, s)
          /\ last = [op |-> "Build", obj |-> [name |-> None, ns |-> None],
                     snap |-> s, pre |-> <<>>]
    /\ ready = [k \in Tasks |-> TRUE]
    /\ pc = [t \in Tasks \cup {"build"} |-> IF t = "build" THEN "done" ELSE "idle"]
    /\ ev = [t \in Tasks |-> NoEv]
    /\ snap = [t \in Tasks \cup {"build"} |-> EmptySnap]
    /\ lock = "free"
    /\ chg = NoChg
    /\ rd = [n |-> 0, torn |-> FALSE]
    /\ graph = EmptyGraph
    /\ state_updates = NoReceiver
    /\ ws = NoSocket
    /\ http = NoRequest
    /\ failed = {}
    /\ arg = NoCall /\ ret = NoCall
    /\ nEvents = 0

InitBuilt == BuiltFrom(MainFeed)

SpecBuilt == InitBuilt /\ [][Watchers]_vars

(***************************************************************************)
(* A wider cluster for the handlers taken one at a time: two namespaces,   *)
(* two Routes referencing the same Service, two Services selecting the     *)
(* same Pod, a Service without selector and a Pod without labels.          *)
(***************************************************************************)
OpsFeed ==
    [initNamespaces |-> {{}, {Namespace("a")}, {Namespace("a"), Namespace("b")}},
     initPods |-> {{}, {Pod("a", "x", Some(Web))}},
     initServices |-> {{}, {Service("a", "x", Some(Web))}},
     initHTTPRoutes |-> {{}, {HTTPRoute("a", "x", <<ServiceRef("x")>>)},
                         {HTTPRoute("a", "x", <<ServiceRef("x")>>),
                          HTTPRoute("a", "y", <<ServiceRef("x")>>)}},
     namespaces |-> {Namespace("a")},
     pods |-> {Pod("a", "x", Some(Web)), Pod("a", "y", Some(Web)),
               Pod("a", "x", None)},
     services |-> {Service("a", "x", Some(Web)), Service("a", "y", Some(Web)),
                   Service("a", "x", None), Service("a", "x", Some({}))},
     httproutes |-> {HTTPRoute("a", "x", <<ServiceRef("x")>>),
                     HTTPRoute("a", "y", <<ServiceRef("x")>>),
                     HTTPRoute("a", "x", <<>>)}]

InitOps == BuiltFrom(OpsFeed)

SpecOps == InitOps /\ [][Watchers]_vars

(***************************************************************************)
(* The same handlers one step at a time while they hold the write lock:    *)
(* the guard is taken, the object's node is removed, the recomputed node   *)
(* is attached and the guard is dropped.  Readers (GET /state, the first   *)
(* snapshot of a subscriber, /healthz) take the read lock, clone the       *)
(* forest and drop the guard.                                              *)
(***************************************************************************)
MaxReaders == 1

EditSteps == {"locked", "removed"}

\* the handler of task t is between taking the write guard and dropping it
InCritical(t) ==
    \/ pc[t] \in EditSteps
    \/ t = "ns" /\ pc[t] \in {"snap_routes", "snap_pods", "commit"}
    \/ t = "rt" /\ pc[t] \in {"del_snap_pods", "del_commit"}

\* the handler of task t has removed its object and not yet put it back
Torn(t) == pc[t] = "removed"

\* the handler of task t is at its hierarchy.write().await
AtWriteLock(t) ==
    \/ t = "pod" /\ pc[t] = "got"
    \/ t = "svc" /\ (pc[t] = "snapped" \/ (pc[t] = "got" /\ ev[t].type = "Delete"))
    \/ t = "rt" /\ pc[t] = "snapped"
    \/ t = "ns" /\ pc[t] = "got"
                /\ (ev[t].type = "Delete"
                    \/ HasRoot(hierarchy, UnwrapStr(ev[t].obj.name)))

WriterLock(t) ==
    /\ AtWriteLock(t) /\ WriteLockFree
    /\ lock' = t
    /\ pc' = [pc EXCEPT ![t] = "locked"]
    /\ UNCHANGED <<hierarchy, Stores, ready, ev, snap, last, chg, nEvents>>

\* the first half of a handler: the node of the object leaves the forest
Removed(t) ==
    LET o == ev[t].obj
    IN CASE t = "pod" -> pod_delete(hierarchy, o)
         [] t = "svc" -> service_delete(hierarchy, o)
         [] t = "rt"  -> [i \in 1..Len(hierarchy) |->
                            remove_httproute_node(hierarchy[i], UnwrapStr(o.name),
                                                  o.ns)]
         [] t = "ns"  -> IF ev[t].type = "Delete"
                         THEN namespace_delete(hierarchy, o) ELSE hierarchy

\* the second half: the recomputed node, with its children, is attached
Attached(t) ==
    LET o == ev[t].obj
    IN IF ev[t].type = "Delete"
       THEN IF t = "rt" THEN httproute_delete(hierarchy, o, snap[t]) ELSE hierarchy
       ELSE CASE t = "pod" -> update_pod_relationships(hierarchy, o)
              [] t = "svc" -> update_service_relationships(hierarchy, o, snap[t].pods)
              [] t = "rt"  -> update_httproute_relationships(hierarchy, o,
                                    snap[t].svcs, snap[t].pods)
              [] t = "ns"  -> IF HasRoot(hierarchy, UnwrapStr(o.name))
                              THEN hierarchy
                              ELSE namespace_apply(hierarchy, o, snap[t])

HandlerName(t) ==
    (CASE t = "pod" -> "Pod" [] t = "svc" -> "Service"
       [] t = "rt" -> "HTTPRoute" [] t = "ns" -> "Namespace") \o ev[t].type

WriterRemove(t) ==
    /\ lock = t
    /\ pc[t] \in {"locked", "commit", "del_commit"}
    /\ hierarchy' = Removed(t)
    /\ pc' = [pc EXCEPT ![t] = "removed"]
    /\ UNCHANGED <<Stores, ready, ev, snap, lock, last, chg, nEvents>>

WriterAttach(t) ==
    /\ lock = t
    /\ pc[t] = "removed"
    /\ hierarchy' = Attached(t)
    /\ last' = [op |-> HandlerName(t), obj |-> ev[t].obj, snap |-> snap[t]]
    /\ lock' = "free"
    /\ Finish(t)
    /\ UNCHANGED <<Caches, ready, chg, nEvents>>

\* router.rs: hierarchy.read().await, then the clone of the forest
ReaderLock ==
    /\ ReadLockFree
    /\ rd.n < MaxReaders
    /\ rd' = [n |-> rd.n + 1,
              torn |-> rd.torn \/ \E t \in Tasks : Torn(t)]
    /\ UNCHANGED <<hierarchy, pod_store, service_store, namespace_store,
                   httproute_store, ready, pc, ev, snap, lock, last, feed, chg,
                   graph, failed, arg, ret, state_updates, ws, http, nEvents>>

ReaderUnlock ==
    /\ rd.n > 0
    /\ rd' = [rd EXCEPT !.n = rd.n - 1]
    /\ UNCHANGED <<hierarchy, pod_store, service_store, namespace_store,
                   httproute_store, ready, pc, ev, snap, lock, last, feed, chg,
                   graph, failed, arg, ret, state_updates, ws, http, nEvents>>

Readers == ReaderLock \/ ReaderUnlock

NextLock ==
    \/ PollPod \/ PollService \/ PollNamespace \/ PollHTTPRoute
    \/ ServiceSnapshot \/ HTTPRouteSnapshotServices \/ HTTPRouteSnapshotPods
    \/ HTTPRouteDeleteLock \/ HTTPRouteDeleteSnapshotPods
    \/ NamespaceApplyLock \/ NamespaceSnapshotHTTPRoutes \/ NamespaceSnapshotPods
    \/ \E t \in Tasks : WriterLock(t)
    \/ \E t \in Tasks : WriterRemove(t)
    \/ \E t \in Tasks : WriterAttach(t)
    \/ Readers

SpecLock == InitBuilt /\ [][NextLock]_vars

\* C5: a handler's remove and reattach happen under one acquisition of the
\* write lock: no reader holds or took a read guard while a handler had
\* removed its object and not yet reattached it, no reader holds a guard
\* while any handler is between taking and dropping the write guard, and no
\* two handlers are between taking and dropping it at the same time.
ExclusiveUpdate ==
    /\ ~rd.torn
    /\ rd.n > 0 => \A t \in Tasks : ~InCritical(t)
    /\ \A t1, t2 \in Tasks : InCritical(t1) /\ InCritical(t2) => t1 = t2
    /\ \A t \in Tasks : InCritical(t) => lock = t

\* a reader holds its guard while a handler waits at the write lock with a
\* notification whose object is in the forest
ExclusiveUpdateWitness ==
    /\ rd.n > 0
    /\ \E t \in Tasks : AtWriteLock(t) /\ Removed(t) # hierarchy

\* a handler is between removing its object and attaching it again while
\* another handler waits at the write lock
ExclusiveUpdateTornWitness ==
    \E t, u \in Tasks :
        /\ Torn(t) /\ Attached(t) # hierarchy
        /\ u # t /\ AtWriteLock(u)

(***************************************************************************)
(* controller.rs: the Graph (nodes and edges keyed by "namespace/name",    *)
(* with the reverse index child -> parent) and the three reconcilers,      *)
(* each of which holds graph.write() for its whole body.                   *)
(***************************************************************************)
MaxReconciles == 3

ControllerFeed ==
    [namespaces |-> {Namespace("a")},
     pods |-> {Pod("a", "x", Some(Web)), Pod("a", "x", None)},
     services |-> {Service("a", "y", Some(Web)), Service("a", "y", Some(Api)),
                   Service("a", "x", Some(Web))}]

MapPut(m, k, v) == [x \in DOMAIN m \cup {k} |-> IF x = k THEN v ELSE m[x]]
MapDel(m, k) == [x \in DOMAIN m \ {k} |-> m[x]]

NodeId(namespace, name) == [namespace |-> Some(namespace), name |-> name]

key(id) ==
    IF IsSome(id.namespace)
    THEN UnwrapStr(id.namespace) \o "/" \o id.name
    ELSE id.name

GraphNode(kind, name, namespace, labels, selector) ==
    [id |-> NodeId(namespace, name), kind |-> kind, labels |-> labels,
     selector |-> selector]

\* nodes.values(): the map's iteration order, fixed for given keys
KeyOrder ==
    LET names == NsOrder \o NameOrder
        n == Len(names)
    IN [i \in 1..(Len(NsOrder) * n) |->
            NsOrder[((i - 1) \div n) + 1] \o "/" \o names[((i - 1) % n) + 1]]

NodeValues(g) ==
    LET present == SelectSeq(KeyOrder, LAMBDA k : k \in DOMAIN g.nodes)
    IN [i \in 1..Len(present) |-> g.nodes[present[i]]]

add_node(g, node) == [g EXCEPT !.nodes = MapPut(g.nodes, key(node.id), node)]

add_edge(g, parent, child) ==
    LET pkey == key(parent)
        ckey == key(child)
    IN IF pkey \in DOMAIN g.nodes /\ ckey \in DOMAIN g.nodes
       THEN [g EXCEPT
                !.edges = MapPut(g.edges, pkey,
                            Append(IF pkey \in DOMAIN g.edges
                                   THEN g.edges[pkey] ELSE <<>>,
                                   [id |-> ckey, kind |-> g.nodes[ckey].kind])),
                !.reverse = MapPut(g.reverse, ckey, pkey)]
       ELSE g

find_namespace_for(g, child_key) ==
    IF child_key \notin DOMAIN g.nodes THEN None
    ELSE LET cnode == g.nodes[child_key]
             vals == NodeValues(g)
             i == FirstIdx(vals, LAMBDA n :
                        n.kind = "Namespace" /\ Some(n.id.name) = cnode.id.namespace)
         IN IF ~IsSome(cnode.id.namespace) \/ i = 0 THEN None ELSE Some(vals[i].id)

\* the `if let Some(parent_key) = graph.reverse.get(..)` block of the
\* reconcilers: the node leaves its parent's edge list and the reverse index
Unparent(g, k) ==
    IF k \in DOMAIN g.reverse
    THEN LET parent_key == g.reverse[k]
         IN [g EXCEPT
                !.edges = IF parent_key \in DOMAIN g.edges
                          THEN [g.edges EXCEPT ![parent_key] =
                                    SelectSeq(@, LAMBDA e : e.id # k)]
                          ELSE g.edges,
                !.reverse = MapDel(g.reverse, k)]
    ELSE g

remove_node(g, id) ==
    LET k == key(id)
        g1 == [g EXCEPT !.nodes = MapDel(g.nodes, k)]
        g2 == IF k \in DOMAIN g1.edges
              THEN FoldSeq(LAMBDA acc, edge :
                        LET a1 == [acc EXCEPT !.reverse = MapDel(acc.reverse, edge.id)]
                            ns_id == find_namespace_for(a1, edge.id)
                        IN IF IsSome(ns_id)
                           THEN add_edge(a1, CHOOSE n \in ns_id : TRUE,
                                         a1.nodes[edge.id].id)
                           ELSE a1,
                       [g1 EXCEPT !.edges = MapDel(g1.edges, k)], g1.edges[k])
              ELSE g1
    IN Unparent(g2, k)

\* the closure of pod_reconciler's `find`: a Service of the namespace with
\* a non-empty selector, all of whose pairs the pod's labels carry
ServiceToAttach(svc_node, namespace, pod_labels) ==
    /\ svc_node.kind = "Service"
    /\ svc_node.id.namespace = Some(namespace)
    /\ IsSome(svc_node.selector)
    /\ UnwrapMap(svc_node.selector) # {}
    /\ \A kv \in UnwrapMap(svc_node.selector) : kv \in pod_labels
    /\ Cardinality({kv \in pod_labels :
                        \E s \in UnwrapMap(svc_node.selector) : s[1] = kv[1]})
         = Cardinality(UnwrapMap(svc_node.selector))

pod_reconciler(g, pod, deleting) ==
    IF ~IsSome(pod.name) \/ ~IsSome(pod.ns) THEN g
    ELSE
    LET name == UnwrapStr(pod.name)
        namespace == UnwrapStr(pod.ns)
        node_id == NodeId(namespace, name)
        g1 == add_node(g, GraphNode("Pod", name, namespace, pod.labels, None))
        vals == NodeValues(g1)
        i == FirstIdx(vals, LAMBDA n :
                    ServiceToAttach(n, namespace, UnwrapMap(pod.labels)))
        g2 == Unparent(g1, key(node_id))
        ns_id == NodeId(namespace, namespace)
    IN IF deleting THEN remove_node(g, node_id)
       ELSE IF i # 0 THEN add_edge(g2, vals[i].id, node_id)
       ELSE IF key(ns_id) \in DOMAIN g2.nodes THEN add_edge(g2, ns_id, node_id)
       ELSE g2

namespace_reconciler(g, namespace) ==
    IF ~IsSome(namespace.name) THEN g
    ELSE
    LET name == UnwrapStr(namespace.name)
        node_id == NodeId(name, name)
        g1 == add_node(g, GraphNode("Namespace", name, name, None, None))
        children == SelectSeq(NodeValues(g1), LAMBDA child :
                        /\ child.id.namespace = Some(name)
                        /\ child.kind # "Namespace"
                        /\ child.id # node_id)
    IN FoldSeq(LAMBDA acc, child : add_edge(acc, node_id, child.id), g1, children)

service_reconciler(g, service, deleting) ==
    IF ~IsSome(service.name) \/ ~IsSome(service.ns) THEN g
    ELSE
    LET name == UnwrapStr(service.name)
        namespace == UnwrapStr(service.ns)
        node_id == NodeId(namespace, name)
        ns_id == NodeId(namespace, namespace)
        g1 == IF key(ns_id) \in DOMAIN g.nodes THEN g
              ELSE add_node(g, GraphNode("Namespace", namespace, namespace,
                                         None, None))
        g2 == add_node(g1, GraphNode("Service", name, namespace, None,
                                     service.selector))
        g3 == add_edge(Unparent(g2, key(node_id)), ns_id, node_id)
        pods_to_attach == SelectSeq(NodeValues(g3), LAMBDA pod :
                            /\ pod.kind = "Pod"
                            /\ pod.id.namespace = Some(namespace)
                            /\ \A kv \in UnwrapMap(service.selector) :
                                    kv \in UnwrapMap(pod.labels))
    IN IF deleting THEN remove_node(g, node_id)
       ELSE IF ~IsSome(service.selector) THEN g3
       ELSE FoldSeq(LAMBDA acc, pod :
                LET a1 == add_edge(acc, node_id, pod.id)
                    ns_for_pod == find_namespace_for(a1, key(pod.id))
                IN IF IsSome(ns_for_pod)
                   THEN LET nk == key(CHOOSE n \in ns_for_pod : TRUE)
                        IN [a1 EXCEPT
                              !.edges = IF nk \in DOMAIN a1.edges
                                        THEN [a1.edges EXCEPT ![nk] =
                                                SelectSeq(@, LAMBDA e :
                                                    e.id # key(pod.id))]
                                        ELSE a1.edges,
                              !.reverse = MapDel(a1.reverse, key(pod.id))]
                   ELSE a1,
                g3, pods_to_attach)

Reconcile(op, obj, deleting) ==
    /\ nEvents < MaxReconciles
    /\ nEvents' = nEvents + 1
    /\ last' = [op |-> op, obj |-> obj, snap |-> EmptySnap, deleting |-> deleting,
                pre |-> graph]
    /\ UNCHANGED <<hierarchy, pod_store, service_store, namespace_store,
                   httproute_store, ready, pc, ev, snap, lock, feed, chg, rd,
                   failed, arg, ret, state_updates, ws,
                   http>>

PodReconcile ==
    \E pod \in feed.pods, deleting \in BOOLEAN :
        /\ graph' = pod_reconciler(graph, pod, deleting)
        /\ Reconcile("pod_reconciler", pod, deleting)

NamespaceReconcile ==
    \E namespace \in feed.namespaces :
        /\ graph' = namespace_reconciler(graph, namespace)
        /\ Reconcile("namespace_reconciler", namespace, FALSE)

ServiceReconcile ==
    \E service \in feed.services, deleting \in BOOLEAN :
        /\ graph' = service_reconciler(graph, service, deleting)
        /\ Reconcile("service_reconciler", service, deleting)

InitController ==
    /\ hierarchy = <<>>
    /\ pod_store = {} /\ service_store = {}
    /\ namespace_store = {} /\ httproute_store = {}
    /\ ready = [k \in Tasks |-> FALSE]
    /\ pc = [t \in Tasks \cup {"build"} |-> IF t = "build" THEN "wait" ELSE "idle"]
    /\ ev = [t \in Tasks |-> NoEv]
    /\ snap = [t \in Tasks \cup {"build"} |-> EmptySnap]
    /\ lock = "free"
    /\ last = [op |-> "None"]
    /\ feed = ControllerFeed
    /\ chg = NoChg
    /\ rd = [n |-> 0, torn |-> FALSE]
    /\ graph = EmptyGraph
    /\ state_updates = NoReceiver
    /\ ws = NoSocket
    /\ http = NoRequest
    /\ failed = {}
    /\ arg = NoCall /\ ret = NoCall
    /\ nEvents = 0

NextController == ServiceReconcile \/ PodReconcile \/ NamespaceReconcile

SpecController == InitController /\ [][NextController]_vars

(***************************************************************************)
(* Reading the forest: every occurrence of a node, with the identities of  *)
(* its ancestors (root first) and its position.                            *)
(***************************************************************************)
Id(n) == <<n.kind, n.ns, n.name>>

RECURSIVE Occurrences(_, _, _)
Occurrences(nodes, anc, path) ==
    UNION {{[id |-> Id(nodes[i]), node |-> [nodes[i] EXCEPT !.relatives = <<>>],
             anc |-> anc, path |-> Append(path, i)]}
           \cup Occurrences(nodes[i].relatives, Append(anc, Id(nodes[i])),
                            Append(path, i))
           : i \in 1..Len(nodes)}

Occ == Occurrences(hierarchy, <<>>, <<>>)
NonRoot == {o \in Occ : Len(o.anc) > 0}
Parent(o) == o.anc[Len(o.anc)]
KindOf(id) == id[1]

\* no watcher task holds a notification and the bulk build has finished
Quiescent == (\A t \in Tasks : pc[t] = "idle") /\ pc["build"] = "done"

NsCached(ns) == \E n \in namespace_store : n.name = ns

\* C1: an object (kind, namespace, name) occurs at most once below the
\* roots; the only repetition allowed is one copy of a Service, with its
\* Pods, under each distinct Route.
FanOut(o1, o2) ==
    \/ /\ KindOf(o1.id) = "Service"
       /\ KindOf(Parent(o1)) = "HTTPRoute" /\ KindOf(Parent(o2)) = "HTTPRoute"
       /\ Parent(o1) # Parent(o2)
    \/ /\ KindOf(o1.id) = "Pod"
       /\ Len(o1.anc) = 3 /\ Len(o2.anc) = 3
       /\ KindOf(Parent(o1)) = "Service" /\ Parent(o1) = Parent(o2)
       /\ KindOf(o1.anc[2]) = "HTTPRoute" /\ KindOf(o2.anc[2]) = "HTTPRoute"
       /\ o1.anc[2] # o2.anc[2]

RootsAreNamespaces ==
    /\ \A i \in 1..Len(hierarchy) : hierarchy[i].kind = "Namespace"
    /\ \A i, j \in 1..Len(hierarchy) :
            i # j => hierarchy[i].name # hierarchy[j].name
    /\ \A o \in NonRoot : KindOf(o.id) # "Namespace"

\* C9: once every notification has been processed, each non-root node is an
\* object of its kind's store.
InStore(o) ==
    LET store == CASE KindOf(o.id) = "Pod" -> pod_store
                   [] KindOf(o.id) = "Service" -> service_store
                   [] KindOf(o.id) = "HTTPRoute" -> httproute_store
                   [] OTHER -> namespace_store
    IN \E x \in store : x.name = o.node.mname /\ x.ns = o.node.ns

NodesAreLive == Quiescent => \A o \in NonRoot : InStore(o)

\* C10: the bulk build snapshots the stores only when all four are ready,
\* and until it has finished no handler has put anything in the forest.
BuildStartsFromEmptyForest ==
    /\ pc["build"] # "wait" => \A k \in Tasks : ready[k]
    /\ pc["build"] # "done" => hierarchy = <<>>

(***************************************************************************)
(* The tree the relationship rules derive from the stores                  *)
(***************************************************************************)
NamespaceId(ns) == <<"Namespace", None, UnwrapStr(ns)>>
PodId(pod) == <<"Pod", pod.ns, UnwrapStr(pod.name)>>
ServiceId(service) == <<"Service", service.ns, UnwrapStr(service.name)>>
HTTPRouteId(httproute) == <<"HTTPRoute", httproute.ns, UnwrapStr(httproute.name)>>

\* the places (ancestors, root first, then the node) where an object occurs
Chains(id) == {Append(o.anc, o.id) : o \in {x \in Occ : x.id = id}}

RouteReferences(httproute, service) ==
    httproute.ns = service.ns /\ Referenced(httproute.refs, UnwrapStr(service.name))

ServiceSelects(service, pod) ==
    Selects(service, pod) /\ UnwrapMap(service.selector) # {}

DerivedServiceChains(service) ==
    LET routes == {r \in httproute_store : RouteReferences(r, service)}
    IN IF routes = {}
       THEN {<<NamespaceId(service.ns), ServiceId(service)>>}
       ELSE {<<NamespaceId(service.ns), HTTPRouteId(r), ServiceId(service)>> :
                r \in routes}

DerivedPodChains(pod, service) ==
    {Append(c, PodId(pod)) : c \in DerivedServiceChains(service)}

Latest(o) ==
    CASE KindOf(o.id) = "Pod" -> \E x \in pod_store : o.node = new_pod(x)
      [] KindOf(o.id) = "Service" ->
            \E x \in service_store : o.node = new_service(x)
      [] KindOf(o.id) = "HTTPRoute" ->
            \E x \in httproute_store : o.node = new_httproute(x)
      [] OTHER -> \E x \in namespace_store : o.node = new_namespace(x)

Converged ==
    /\ Len(hierarchy) = Cardinality(namespace_store)
    /\ \A o \in Occ : Latest(o)
    /\ \A o1, o2 \in Occ :
            (o1.anc = o2.anc /\ o1.id = o2.id) => o1.path = o2.path
    /\ \A r \in httproute_store :
            NsCached(r.ns) =>
                Chains(HTTPRouteId(r)) = {<<NamespaceId(r.ns), HTTPRouteId(r)>>}
    /\ \A s \in service_store :
            NsCached(s.ns) => Chains(ServiceId(s)) = DerivedServiceChains(s)
    /\ \A p \in pod_store :
            NsCached(p.ns) =>
                LET sel == {s \in service_store : ServiceSelects(s, p)}
                IN IF sel = {}
                   THEN Chains(PodId(p)) = {<<NamespaceId(p.ns), PodId(p)>>}
                   ELSE \E s \in sel : Chains(PodId(p)) = DerivedPodChains(p, s)

\* C2: once every notification has been processed the forest is the tree
\* derived from the latest cached state of every object, whatever the order
\* in which the notifications were processed.
ConvergesToDerivedTree == Quiescent => Converged

PodUnderService(pod, service) ==
    \E o \in NonRoot : o.id = PodId(pod) /\ Parent(o) = ServiceId(service)

ServiceUnderRoute(service, httproute) ==
    \E o \in NonRoot : o.id = ServiceId(service) /\ Parent(o) = HTTPRouteId(httproute)

\* C3: once every notification has been processed, a cached Pod is under a
\* cached Service of its namespace iff its labels satisfy the selector.
SelectorCorrectness ==
    Quiescent =>
        \A s \in service_store : \A p \in pod_store :
            (s.ns = p.ns /\ NsCached(s.ns)) =>
                (PodUnderService(p, s) <=> Selects(s, p))

\* C4: once every notification has been processed, a cached Service is
\* under a cached Route of its namespace iff the Route references it.
ReferenceCorrectness ==
    Quiescent =>
        \A r \in httproute_store : \A s \in service_store :
            (r.ns = s.ns /\ NsCached(r.ns)) =>
                (ServiceUnderRoute(s, r) <=> RouteReferences(r, s))

\* C7: after a selector change that unselects Pod P, once S and P have both
\* been re-applied, P is directly under its Namespace root or under another
\* Service that selects it, and not under S.
MoveDone ==
    /\ Quiescent /\ chg.on /\ chg.podDone /\ chg.svcDone
    /\ NsCached(chg.pod.ns) /\ HasRoot(hierarchy, UnwrapStr(chg.pod.ns))

MoveConsistency ==
    MoveDone =>
        LET occP == {o \in NonRoot : o.id = PodId(chg.pod)}
        IN /\ occP # {}
           /\ \A o \in occP :
                /\ Parent(o) # ServiceId(chg.svc)
                /\ \/ Parent(o) = NamespaceId(chg.pod.ns)
                   \/ \E t \in service_store :
                        Parent(o) = ServiceId(t) /\ Selects(t, chg.pod)

(***************************************************************************)
(* Idempotence of the Apply handlers                                       *)
(***************************************************************************)
Reapply(h, l) ==
    CASE l.op = "PodApply" -> update_pod_relationships(h, l.obj)
      [] l.op = "ServiceApply" ->
            update_service_relationships(h, l.obj, l.snap.pods)
      [] l.op = "HTTPRouteApply" ->
            update_httproute_relationships(h, l.obj, l.snap.svcs, l.snap.pods)
      [] l.op = "NamespaceApply" -> namespace_apply(h, l.obj, l.snap)
      [] OTHER -> h

Reconciled(g, l) ==
    CASE l.op = "pod_reconciler" /\ ~l.deleting -> pod_reconciler(g, l.obj, FALSE)
      [] l.op = "service_reconciler" /\ ~l.deleting ->
            service_reconciler(g, l.obj, FALSE)
      [] l.op = "namespace_reconciler" -> namespace_reconciler(g, l.obj)
      [] OTHER -> g

\* C6: processing the Apply notification that was processed last once more,
\* against the same store contents, leaves the forest as it is; so does
\* reconciling the object that was reconciled last once more.
Idempotence ==
    /\ Reapply(hierarchy, last) = hierarchy
    /\ Reconciled(graph, last) = graph

(***************************************************************************)
(* The handlers one at a time: the forest right after the mutation `last`, *)
(* against the forest `last.pre` right before it.                          *)
(***************************************************************************)
OccOf(id) == {o \in Occ : o.id = id}
PreOcc == Occurrences(last.pre, <<>>, <<>>)

\* the Service node of an occurrence selects the pod (a selector that is
\* empty or absent selects nothing)
NodeSelects(o, pod) ==
    /\ KindOf(o.id) = "Service" /\ o.node.ns = pod.ns
    /\ UnwrapMap(o.node.selector) # {}
    /\ selectors_match(UnwrapMap(o.node.selector), UnwrapMap(pod.labels))

\* C11: right after Apply(Pod P) with P's Namespace root present, every
\* node of P is the new one; P sits under a Service node that selects it if
\* the forest has one, and directly under its Namespace root otherwise.
PodApplyAttaches ==
    (last.op = "PodApply" /\ HasRoot(last.pre, UnwrapStr(last.obj.ns))) =>
        LET P == last.obj
            svcs == {o \in Occ : NodeSelects(o, P)}
        IN /\ OccOf(PodId(P)) # {}
           /\ \A o \in OccOf(PodId(P)) :
                /\ o.node = [new_pod(P) EXCEPT !.relatives = <<>>]
                /\ IF svcs = {}
                   THEN o.anc = <<NamespaceId(P.ns)>>
                   ELSE \E v \in svcs : o.anc = Append(v.anc, v.id)

\* the Route nodes of the forest h that reference the service
ReferencingRoutes(h, service) ==
    {o \in Occurrences(h, <<>>, <<>>) :
        /\ KindOf(o.id) = "HTTPRoute" /\ o.node.ns = service.ns
        /\ Referenced(o.node.refs, UnwrapStr(service.name))}

SeqToSet(seq) == {seq[i] : i \in 1..Len(seq)}

\* the Pod nodes the service must carry: the Pods of its namespace, among
\* those the handler read from the Pod cache, that its selector selects
SelectedPodNodes(service, pods) ==
    {[new_pod(p) EXCEPT !.relatives = <<>>] :
        p \in {q \in SeqToSet(pods) : ServiceSelects(service, q)}}

\* the children of the occurrence o
ChildrenOf(o) == {c \in Occ : c.anc = Append(o.anc, o.id)
                              /\ SubSeq(c.path, 1, Len(o.path)) = o.path}

CarriesSelectedPods(o, service, pods) ==
    /\ {c.node : c \in ChildrenOf(o)} = SelectedPodNodes(service, pods)
    /\ Cardinality(ChildrenOf(o)) = Cardinality(SelectedPodNodes(service, pods))

\* C12: right after Apply(Service S) with S's Namespace root present and no
\* Route node referencing S, S has exactly one node, directly under its
\* Namespace root, whose children are exactly the cached Pods of its
\* namespace that its selector selects.
ServiceApplyUnderNamespace ==
    (/\ last.op = "ServiceApply"
     /\ HasRoot(last.pre, UnwrapStr(last.obj.ns))
     /\ ReferencingRoutes(last.pre, last.obj) = {}) =>
        LET S == last.obj
        IN /\ Cardinality(OccOf(ServiceId(S))) = 1
           /\ \A o \in OccOf(ServiceId(S)) :
                /\ o.anc = <<NamespaceId(S.ns)>>
                /\ o.node = [new_service(S) EXCEPT !.relatives = <<>>]
                /\ CarriesSelectedPods(o, S, last.snap.pods)

\* C13: right after Apply(Route R) with R's Namespace root present, R has
\* one node, directly under that root; every Service of R's namespace that
\* the handler read from the cache and R references is a child of R with
\* the cached Pods it selects, and is no longer directly under the root.
RouteApplyNests ==
    (last.op = "HTTPRouteApply" /\ HasRoot(last.pre, UnwrapStr(last.obj.ns))) =>
        LET R == last.obj
            refd == {s \in SeqToSet(last.snap.svcs) : RouteReferences(R, s)}
        IN /\ Cardinality(OccOf(HTTPRouteId(R))) = 1
           /\ \A o \in OccOf(HTTPRouteId(R)) : o.anc = <<NamespaceId(R.ns)>>
           /\ \A s \in refd :
                /\ \E o \in OccOf(ServiceId(s)) :
                        /\ o.anc = <<NamespaceId(R.ns), HTTPRouteId(R)>>
                        /\ CarriesSelectedPods(o, s, last.snap.pods)
                /\ \A o \in OccOf(ServiceId(s)) : o.anc # <<NamespaceId(s.ns)>>

\* C14: right after Apply(Service S) with S's Namespace root present: if
\* Route nodes of the forest reference S, each of them has exactly one copy
\* of S as a child, every copy carries the cached Pods S selects, and S has
\* no other node; if none does, S has one node, directly under the root.
ServiceApplyFansOut ==
    (last.op = "ServiceApply" /\ HasRoot(last.pre, UnwrapStr(last.obj.ns))) =>
        LET S == last.obj
            routes == ReferencingRoutes(hierarchy, S)
            copies == OccOf(ServiceId(S))
        IN IF routes = {}
           THEN /\ Cardinality(copies) = 1
                /\ \A o \in copies : o.anc = <<NamespaceId(S.ns)>>
           ELSE /\ \A r \in routes :
                    Cardinality(copies \cap ChildrenOf(r)) = 1
                /\ \A o \in copies :
                    /\ \E r \in routes : o \in ChildrenOf(r)
                    /\ CarriesSelectedPods(o, S, last.snap.pods)
                /\ \A o1, o2 \in copies :
                    {c.node : c \in ChildrenOf(o1)} = {c.node : c \in ChildrenOf(o2)}

\* the Pod occurrences that sat directly beneath a node of service before the
\* last operation
PodsBeneath(service) ==
    {c \in PreOcc : /\ KindOf(c.id) = "Pod"
                    /\ c.anc # <<>>
                    /\ c.anc[Len(c.anc)] = ServiceId(service)}

RoutesContaining(service) ==
    {r \in PreOcc : /\ KindOf(r.id) = "HTTPRoute"
                    /\ \E c \in PreOcc : /\ c.id = ServiceId(service)
                                         /\ c.anc = Append(r.anc, r.id)}

\* the keys that occur as a child in some edge list of the graph
EdgeChildren(g) ==
    UNION {{g.edges[p][i].id : i \in 1..Len(g.edges[p])} : p \in DOMAIN g.edges}

\* C15: right after Delete(Service S) the forest has no node of S, the Pods
\* that sat beneath S are nowhere in the forest, and every Route that
\* contained S is still where it was; after the reconciler removed Service
\* S from the graph, S is no node and no child, and the Pods that were its
\* children are the child of no node.
ServiceDeleteDropsPods ==
    /\ last.op = "ServiceDelete" =>
        LET S == last.obj
        IN /\ OccOf(ServiceId(S)) = {}
           /\ \A c \in PodsBeneath(S) : OccOf(c.id) = {}
           /\ \A r \in RoutesContaining(S) :
                \E o \in OccOf(r.id) : o.anc = r.anc
    /\ (last.op = "service_reconciler" /\ last.deleting
            /\ IsSome(last.obj.name) /\ IsSome(last.obj.ns)) =>
        LET k == key(NodeId(UnwrapStr(last.obj.ns), UnwrapStr(last.obj.name)))
        IN (k \in DOMAIN last.pre.nodes /\ last.pre.nodes[k].kind = "Service") =>
            /\ k \notin DOMAIN graph.nodes
            /\ k \notin EdgeChildren(graph)
            /\ k \in DOMAIN last.pre.edges =>
                \A i \in 1..Len(last.pre.edges[k]) :
                    last.pre.edges[k][i].kind = "Pod" =>
                        last.pre.edges[k][i].id \notin EdgeChildren(graph)

DeletedId ==
    CASE last.op = "PodDelete" -> PodId(last.obj)
      [] last.op = "ServiceDelete" -> ServiceId(last.obj)
      [] last.op = "HTTPRouteDelete" -> HTTPRouteId(last.obj)

\* a forest without the order of its children
Shape(h) == {<<o.id, o.anc, o.node>> : o \in Occurrences(h, <<>>, <<>>)}

PodChildren(occ, o) ==
    {c \in occ : KindOf(c.id) = "Pod" /\ c.anc = Append(o.anc, o.id)}

IsDelete == last.op \in {"PodDelete", "ServiceDelete", "HTTPRouteDelete"}

\* right after a Delete the object has no node left, and the forest is the
\* one before the Delete when the object had no node
DeleteRemovesEveryNode ==
    IsDelete =>
        /\ OccOf(DeletedId) = {}
        /\ (\A o \in PreOcc : o.id # DeletedId) => Shape(hierarchy) = Shape(last.pre)

\* a Pod applied right after the Delete of a Pod is the only Pod child of
\* every Service node that selects it and had no other Pod than the deleted
ReplacementPodAlone ==
    (last.op = "PodDelete" /\ last'.op = "PodApply") =>
        LET post == Occurrences(hierarchy', <<>>, <<>>)
        IN \A o \in post :
            (/\ NodeSelects(o, last'.obj)
             /\ \A c \in PodChildren(PreOcc, o) : c.id = PodId(last.obj)) =>
                /\ Cardinality(PodChildren(post, o)) = 1
                /\ \A c \in PodChildren(post, o) : c.id = PodId(last'.obj)

\* C16: right after Delete(X) of a Pod, Service or Route no node of X is
\* left at any depth under any root; when X had no node the forest is as
\* before; and a replacement Pod applied after the Delete of a Pod is the
\* only Pod child of the Service that selects it.
DeleteRemovesAllCopies ==
    /\ []DeleteRemovesEveryNode
    /\ [][ReplacementPodAlone]_vars

IsNamespacedApply == last.op \in {"PodApply", "ServiceApply", "HTTPRouteApply"}

AppliedId ==
    CASE last.op = "PodApply" -> PodId(last.obj)
      [] last.op = "ServiceApply" -> ServiceId(last.obj)
      [] last.op = "HTTPRouteApply" -> HTTPRouteId(last.obj)

\* C17: right after Delete(Namespace N) the forest has no root named N and
\* no node of the subtree N had; and right after the Apply of a Pod, Service
\* or Route whose namespace has no root, the object has no node under a root
\* of another namespace.
NamespaceDeleteDropsSubtree ==
    /\ last.op = "NamespaceDelete" =>
        LET N == NamespaceId(last.obj.name)
        IN /\ ~HasRoot(hierarchy, UnwrapStr(last.obj.name))
           /\ \A p \in PreOcc :
                (p.id = N \/ (p.anc # <<>> /\ p.anc[1] = N)) => OccOf(p.id) = {}
    /\ (IsNamespacedApply /\ ~HasRoot(last.pre, UnwrapStr(last.obj.ns))) =>
        \A o \in OccOf(AppliedId) :
            o.anc # <<>> /\ o.anc[1] = NamespaceId(last.obj.ns)

\* a Namespace with a subtree was deleted
NamespaceDeleteWitness ==
    /\ last.op = "NamespaceDelete"
    /\ \E p \in PreOcc : p.anc # <<>> /\ p.anc[1] = NamespaceId(last.obj.name)
    /\ hierarchy # <<>>

\* an object of the deleted Namespace was applied while another root exists
OrphanApplyWitness ==
    /\ IsNamespacedApply /\ ~HasRoot(last.pre, UnwrapStr(last.obj.ns))
    /\ ~NsCached(last.obj.ns)
    /\ last.pre # <<>>

\* the Service nodes of the forest that select pod
SelectingNodes(pod) == {o \in Occ : NodeSelects(o, pod)}

\* C18: right after Apply(Pod P), when the forest holds nodes of two or more
\* distinct Services that select P (one node each), P has exactly one node,
\* and its parent is one of those Services.
PodAttachedOnce ==
    (/\ last.op = "PodApply"
     /\ Cardinality({o.id : o \in SelectingNodes(last.obj)}) >= 2
     /\ \A o1, o2 \in SelectingNodes(last.obj) : o1.id = o2.id => o1 = o2) =>
        /\ Cardinality(OccOf(PodId(last.obj))) = 1
        /\ \A p \in OccOf(PodId(last.obj)) :
            \E o \in SelectingNodes(last.obj) : p.anc = Append(o.anc, o.id)

\* C19: a Service node whose selector is empty or absent has no Pod child,
\* in every state of the forest.
EmptySelectorOwnsNoPods ==
    \A o \in Occ :
        (KindOf(o.id) = "Service" /\ UnwrapMap(o.node.selector) = {}) =>
            PodChildren(Occ, o) = {}

RootsNamed(name) ==
    {i \in 1..Len(hierarchy) :
        hierarchy[i].kind = "Namespace" /\ hierarchy[i].name = name}

\* C20: right after Apply(Service S) with no root for S's namespace, the
\* forest has one root for that namespace and a node of S beneath it; right
\* after Apply(Namespace N) the forest has exactly one root named N; and
\* after the reconciler handled Service S the graph has a Namespace node for
\* S's namespace with S among its children.
ServiceApplyCreatesPlaceholder ==
    /\ (last.op = "ServiceApply" /\ ~HasRoot(last.pre, UnwrapStr(last.obj.ns))) =>
        /\ Cardinality(RootsNamed(UnwrapStr(last.obj.ns))) = 1
        /\ \E o \in OccOf(ServiceId(last.obj)) :
            o.anc # <<>> /\ o.anc[1] = NamespaceId(last.obj.ns)
    /\ last.op = "NamespaceApply" =>
        Cardinality(RootsNamed(UnwrapStr(last.obj.name))) = 1
    /\ (last.op = "service_reconciler" /\ ~last.deleting
            /\ IsSome(last.obj.name) /\ IsSome(last.obj.ns)) =>
        LET ns == UnwrapStr(last.obj.ns)
            nk == key(NodeId(ns, ns))
            sk == key(NodeId(ns, UnwrapStr(last.obj.name)))
        IN /\ nk \in DOMAIN graph.nodes /\ graph.nodes[nk].kind = "Namespace"
           /\ nk \in DOMAIN graph.edges
           /\ \E i \in 1..Len(graph.edges[nk]) : graph.edges[nk][i].id = sk

\* the cached Pods of namespace name that the Namespace handler read
SnapshotPodsOf(name) == {p \in SeqToSet(last.snap.pods) : p.ns = Some(name)}

\* C21: right after Apply(Pod P) with no root for P's namespace the forest
\* has no root for it and no node of P; and right after the Apply(Namespace
\* N) that created root N, every Pod of N that was in the Pod cache has a
\* node in N's subtree, under a Service node that selects it when there is
\* one, else directly under the root.
PodWaitsForNamespace ==
    /\ (last.op = "PodApply" /\ ~HasRoot(last.pre, UnwrapStr(last.obj.ns))) =>
        /\ ~HasRoot(hierarchy, UnwrapStr(last.obj.ns))
        /\ Len(hierarchy) = Len(last.pre)
        /\ OccOf(PodId(last.obj)) = {}
    /\ (last.op = "NamespaceApply" /\ ~HasRoot(last.pre, UnwrapStr(last.obj.name))) =>
        \A p \in SnapshotPodsOf(UnwrapStr(last.obj.name)) :
            /\ OccOf(PodId(p)) # {}
            /\ \A o \in OccOf(PodId(p)) :
                IF SelectingNodes(p) = {}
                THEN o.anc = <<NamespaceId(last.obj.name)>>
                ELSE \E v \in SelectingNodes(p) :
                        /\ v.anc[1] = NamespaceId(last.obj.name)
                        /\ o.anc = Append(v.anc, v.id)

(***************************************************************************)
(* Two namespaces whose objects share names, labels and backend-reference  *)
(* names: the watchers after a clean bulk build of such a cluster.         *)
(***************************************************************************)
NsFeed ==
    [initNamespaces |-> {{Namespace("a")}, {Namespace("a"), Namespace("b")}},
     initPods |-> {{}, {Pod("a", "x", Some(Web)), Pod("b", "x", Some(Web))}},
     initServices |-> {{}, {Service("a", "x", Some(Web)),
                            Service("b", "x", Some(Web))}},
     initHTTPRoutes |-> {{}, {HTTPRoute("a", "x", <<ServiceRef("x")>>),
                              HTTPRoute("b", "x", <<ServiceRef("x")>>)}},
     namespaces |-> {Namespace("a"), Namespace("b")},
     pods |-> {Pod("a", "x", Some(Web)), Pod("b", "x", Some(Web))},
     services |-> {Service("a", "x", Some(Web)), Service("b", "x", Some(Web))},
     httproutes |-> {HTTPRoute("a", "x", <<ServiceRef("x")>>),
                     HTTPRoute("b", "x", <<ServiceRef("x")>>)}]

InitNs == BuiltFrom(NsFeed)

SpecNs == InitNs /\ [][Watchers]_vars

\* C22: in every state, every node below a root lies in the subtree of the
\* root of its own namespace, and every node below a Service or a Route has
\* the namespace of that parent.
NamespaceScoped ==
    \A o \in NonRoot :
        /\ IsSome(o.node.ns)
        /\ o.anc[1] = NamespaceId(o.node.ns)
        /\ Len(o.anc) >= 2 => Parent(o)[2] = o.node.ns

\* both namespaces hold a Service x with a Pod x beneath it right after a
\* Service was applied
NamespaceScopedWitness ==
    /\ last.op = "ServiceApply"
    /\ \A n \in {"a", "b"} :
        \E o \in Occ : /\ o.id = <<"Pod", Some(n), "x">>
                       /\ Len(o.anc) >= 2
                       /\ Parent(o) = <<"Service", Some(n), "x">>

(***************************************************************************)
(* router.rs: the forest as a reader gets it.  sort_by is a stable sort of *)
(* the roots by name; NameRank is the order of the names in use.           *)
(***************************************************************************)
NameRank(name) ==
    LET names == NsOrder \o NameOrder
    IN CHOOSE i \in 1..Len(names) : names[i] = name

sort_by_name(h) ==
    FoldSeq(LAMBDA acc, n :
                LET before == SelectSeq(acc, LAMBDA m :
                                  NameRank(m.name) <= NameRank(n.name))
                    after == SelectSeq(acc, LAMBDA m :
                                  NameRank(m.name) > NameRank(n.name))
                IN before \o <<n>> \o after,
            <<>>, h)

(***************************************************************************)
(* handle_socket: subscribe, read and send the initial state, then the     *)
(* send task's loop over rx.recv().  got is the history of the messages    *)
(* the client was sent; at is the number of values the channel had been    *)
(* sent when the initial state was read.  mark is the number of values     *)
(* published up to the forest held in msg (the position of a received      *)
(* value in what was sent, or the number sent so far when the forest was   *)
(* read from the store); marks are the marks of the messages in got.       *)
(***************************************************************************)
\* the statements of handle_socket before the first send, in the order
\* the task runs them, with the receiver created after the read
handle_socket_prologue_read_first == <<"read", "subscribe">>

handle_socket_prologue == <<"subscribe", "read">>

\* one statement of the prologue: state_updates.subscribe(), which creates
\* the receiver, or the read of the forest under the read lock; base is
\* the forest at the time of the subscribe
Prologue ==
    /\ ws.pc \in {"off", "connecting"}
    /\ LET i == IF ws.pc = "off" THEN 1 ELSE 2
           w == IF ws.pc = "off"
                THEN [pc |-> "off", msg |-> <<>>, got |-> <<>>, at |-> 0,
                      lagged |-> FALSE, base |-> <<>>, mark |-> 0,
                      marks |-> <<>>]
                ELSE ws
           to == IF i = 1 THEN "connecting" ELSE "initial_send"
       IN \/ /\ handle_socket_prologue[i] = "subscribe"
             /\ state_updates' = [NoReceiver EXCEPT !.open = TRUE]
             /\ ws' = [w EXCEPT !.pc = to, !.base = hierarchy]
          \/ /\ handle_socket_prologue[i] = "read" /\ ReadLockFree
             /\ ws' = [w EXCEPT !.pc = to, !.msg = sort_by_name(hierarchy),
                                !.at = Len(state_updates.sent),
                                !.mark = Len(state_updates.sent)]
             /\ UNCHANGED state_updates
    /\ UNCHANGED <<hierarchy, pod_store, service_store, namespace_store,
                   httproute_store, ready, pc, ev, snap, lock, last, feed, chg,
                   rd, graph, failed, arg, ret, http, nEvents>>

\* sender.send(..).await completes: the client has taken the message
SocketSend ==
    /\ ws.pc \in {"initial_send", "send"}
    /\ ws' = [ws EXCEPT !.pc = "recv", !.got = Append(@, ws.msg),
                        !.marks = Append(@, ws.mark)]
    /\ UNCHANGED <<hierarchy, pod_store, service_store, namespace_store,
                   httproute_store, ready, pc, ev, snap, lock, last, feed, chg,
                   rd, graph, failed, arg, ret, http, state_updates, nEvents>>

\* rx.recv().await returns Ok(state)
RecvOk ==
    /\ ws.pc = "recv"
    /\ state_updates.missed = 0 /\ state_updates.q # <<>>
    /\ state_updates' = [state_updates EXCEPT !.q = Tail(@)]
    /\ ws' = [ws EXCEPT !.pc = "send", !.msg = sort_by_name(Head(state_updates.q)),
                        !.mark = Len(state_updates.sent) - Len(state_updates.q) + 1]
    /\ UNCHANGED <<hierarchy, pod_store, service_store, namespace_store,
                   httproute_store, ready, pc, ev, snap, lock, last, feed, chg,
                   rd, graph, failed, arg, ret, http, nEvents>>

\* rx.recv().await returns Err(Lagged(n))
RecvLagged ==
    /\ ws.pc = "recv"
    /\ state_updates.missed > 0
    /\ state_updates' = [state_updates EXCEPT !.missed = 0]
    /\ ws' = [ws EXCEPT !.pc = "lagged", !.lagged = TRUE]
    /\ UNCHANGED <<hierarchy, pod_store, service_store, namespace_store,
                   httproute_store, ready, pc, ev, snap, lock, last, feed, chg,
                   rd, graph, failed, arg, ret, http, nEvents>>

\* the Lagged arm: hierarchy.read().await and the clone; the guard lives to
\* the end of the arm
LagRead ==
    /\ ws.pc = "lagged" /\ ReadLockFree
    /\ rd' = [n |-> rd.n + 1, torn |-> rd.torn \/ \E t \in Tasks : Torn(t)]
    /\ ws' = [ws EXCEPT !.pc = "lag_send", !.msg = sort_by_name(hierarchy),
                        !.mark = Len(state_updates.sent)]
    /\ UNCHANGED <<hierarchy, pod_store, service_store, namespace_store,
                   httproute_store, ready, pc, ev, snap, lock, last, feed, chg,
                   graph, failed, arg, ret, http, state_updates, nEvents>>

\* the Lagged arm's sender.send(..).await completes and the arm ends
LagSend ==
    /\ ws.pc = "lag_send"
    /\ rd' = [rd EXCEPT !.n = rd.n - 1]
    /\ ws' = [ws EXCEPT !.pc = "recv", !.got = Append(@, ws.msg),
                        !.marks = Append(@, ws.mark)]
    /\ UNCHANGED <<hierarchy, pod_store, service_store, namespace_store,
                   httproute_store, ready, pc, ev, snap, lock, last, feed, chg,
                   graph, failed, arg, ret, http, state_updates, nEvents>>

\* the client closes or a send fails: the tasks end, rx and any guard drop
Disconnect ==
    /\ ws.pc \notin {"off", "closed"}
    /\ rd' = IF ws.pc = "lag_send" THEN [rd EXCEPT !.n = rd.n - 1] ELSE rd
    /\ ws' = [pc |-> "closed"]
    /\ state_updates' = NoReceiver
    /\ UNCHANGED <<hierarchy, pod_store, service_store, namespace_store,
                   httproute_store, ready, pc, ev, snap, lock, last, feed, chg,
                   graph, failed, arg, ret, http, nEvents>>

Socket ==
    \/ Prologue \/ SocketSend \/ RecvOk \/ RecvLagged
    \/ LagRead \/ LagSend \/ Disconnect

(***************************************************************************)
(* GET /state and GET /healthz.  Each handler takes the read lock, builds  *)
(* its response in memory and drops the guard before it returns; axum then *)
(* writes the response to the client.                                      *)
(***************************************************************************)
state(h) == sort_by_name(h)

healthz_unless_empty(h) ==
    IF h = <<>>
    THEN [code |-> 200, message |-> "ready"]
    ELSE [code |-> 503, message |-> "waiting for kubernetes resources"]

healthz(h) ==
    LET is_ready == ~(h = <<>>)
    IN IF ~is_ready
       THEN [code |-> 503, message |-> "waiting for kubernetes resources"]
       ELSE [code |-> 200, message |-> "ready"]

GetState ==
    /\ http.pc = "idle" /\ ReadLockFree
    /\ http' = [pc |-> "respond", route |-> "/state", body |-> state(hierarchy)]
    /\ UNCHANGED <<hierarchy, pod_store, service_store, namespace_store,
                   httproute_store, ready, pc, ev, snap, lock, last, feed, chg,
                   rd, graph, failed, arg, ret, state_updates, ws, nEvents>>

GetHealthz ==
    /\ http.pc = "idle" /\ ReadLockFree
    /\ http' = [pc |-> "respond", route |-> "/healthz",
                body |-> healthz(hierarchy)]
    /\ UNCHANGED <<hierarchy, pod_store, service_store, namespace_store,
                   httproute_store, ready, pc, ev, snap, lock, last, feed, chg,
                   rd, graph, failed, arg, ret, state_updates, ws, nEvents>>

\* the response has been written to the client
Respond ==
    /\ http.pc = "respond"
    /\ http' = NoRequest
    /\ UNCHANGED <<hierarchy, pod_store, service_store, namespace_store,
                   httproute_store, ready, pc, ev, snap, lock, last, feed, chg,
                   rd, graph, failed, arg, ret, state_updates, ws, nEvents>>

Http == GetState \/ GetHealthz \/ Respond

StreamFeed ==
    [initNamespaces |-> {{Namespace("a"), Namespace("b")}},
     initPods |-> {{Pod("a", "y", Some(Web))}},
     initServices |-> {{Service("a", "x", Some(Api))}},
     initHTTPRoutes |-> {{HTTPRoute("a", "x", <<ServiceRef("x")>>)}},
     namespaces |-> {Namespace("a")},
     pods |-> {Pod("a", "x", Some(Web))},
     services |-> {Service("a", "x", Some(Api))},
     httproutes |-> {HTTPRoute("a", "x", <<ServiceRef("x")>>)}]

\* the four reflectors have completed their initial lists; the bulk build
\* has not started and no notification has arrived
InitStream ==
    /\ hierarchy = <<>>
    /\ feed = StreamFeed
    /\ pod_store \in feed.initPods
    /\ service_store \in feed.initServices
    /\ namespace_store \in feed.initNamespaces
    /\ httproute_store \in feed.initHTTPRoutes
    /\ ready = [k \in Tasks |-> TRUE]
    /\ pc = [t \in Tasks \cup {"build"} |-> IF t = "build" THEN "wait" ELSE "idle"]
    /\ ev = [t \in Tasks |-> NoEv]
    /\ snap = [t \in Tasks \cup {"build"} |-> EmptySnap]
    /\ lock = "free"
    /\ last = [op |-> "None"]
    /\ chg = NoChg
    /\ rd = [n |-> 0, torn |-> FALSE]
    /\ graph = EmptyGraph
    /\ state_updates = NoReceiver
    /\ ws = NoSocket
    /\ http = NoRequest
    /\ failed = {}
    /\ arg = NoCall /\ ret = NoCall
    /\ nEvents = 0

BulkBuild ==
    \/ BuildSnapshotNamespaces \/ BuildSnapshotServices \/ BuildSnapshotPods
    \/ BuildSnapshotHTTPRoutes \/ Build

\* the Pod and Namespace feeds deliver notifications; the Service and Route
\* feeds are silent after their initial lists
PodAndNamespaceWatchers ==
    \/ PollPod \/ PodApply \/ PodDelete
    \/ PollNamespace \/ NamespaceApplyKnown \/ NamespaceApplyLock
    \/ NamespaceSnapshotHTTPRoutes \/ NamespaceSnapshotPods
    \/ NamespaceApply \/ NamespaceDelete

NextStream == BulkBuild \/ PodAndNamespaceWatchers \/ Socket

SpecStream == InitStream /\ [][NextStream]_vars

\* the bulk build, the Pod and Namespace feeds and the two GET handlers
NextHttp == BulkBuild \/ PodAndNamespaceWatchers \/ Http

SpecHttp == InitStream /\ [][NextHttp]_vars

\* what the client has been sent after the first message, then the message
\* the send task holds, then the values waiting in the channel
Delivered ==
    (IF ws.got = <<>> THEN <<>> ELSE Tail(ws.got))
        \o (IF ws.pc = "send" THEN <<ws.msg>> ELSE <<>>)
        \o MapSeq(sort_by_name, state_updates.q)

FirstMessage == IF ws.pc = "initial_send" THEN ws.msg ELSE ws.got[1]

ResyncPending == ws.pc = "lag_send"

\* the resync message is the forest as the Lagged arm read it, and once it
\* is sent the task is back at rx.recv()
ResyncSendsCurrentForest ==
    /\ (ws.pc = "lagged" /\ ws'.pc = "lag_send") =>
          ws'.msg = sort_by_name(hierarchy)
    /\ (ws.pc = "lag_send" /\ ws'.pc # "closed" /\ ws' # ws) =>
          /\ ws'.pc = "recv"
          /\ ws'.got = Append(ws.got, ws.msg)

\* C25: after a lag the next message to the subscriber is the forest read
\* from the store at that moment and the stream then continues; while that
\* message waits for the slow client, the subscriber holds nothing that
\* keeps a handler from writing the forest and publishing it.
LagResyncs ==
    /\ [](ResyncPending => rd.n = 0)
    /\ [][ResyncSendsCurrentForest]_vars

\* the steps of the send task once handle_socket has been called: tokio
\* runs every task that is ready, and the client takes what it is sent
SendTask ==
    \/ ws.pc # "off" /\ Prologue
    \/ SocketSend \/ RecvOk \/ RecvLagged \/ LagRead \/ LagSend

\* task t has a step to take: it is not waiting for a notification or
\* finished, and if it is at hierarchy.write().await the lock is free
TaskReady(t) ==
    /\ pc[t] \notin {"idle", "done"}
    /\ pc[t] \in {"got", "snapped"} => WriteLockFree

\* a step of task t, told by its position moving
TaskStep(t) ==
    /\ TaskReady(t)
    /\ \E to \in {"idle", "done", "snap_svcs", "snap_pods", "snap_routes",
                  "snapped"} :
           to # pc[t] /\ pc' = [pc EXCEPT ![t] = to]

\* the bulk build, the Pod feed and one subscriber
NextPodStream == BulkBuild \/ PollPod \/ PodApply \/ PodDelete \/ Socket

SpecPodStreamFair ==
    /\ InitStream /\ [][NextPodStream]_vars
    /\ WF_vars(SendTask)
    /\ WF_pc(TaskStep("pod")) /\ WF_pc(TaskStep("build"))

LastDelivered == ws.got[Len(ws.got)]

GuardDroppedBeforeSend ==
    (\/ ws.pc \in {"initial_send", "send", "lag_send"}
     \/ http.pc = "respond") => rd.n = 0

\* C28: the response GET /healthz builds is 200 "ready" when the forest has
\* at least one root at the time of the check and 503 when it has none,
\* whatever happened before.
ReadyIffNonEmpty ==
    [][(http.pc = "idle" /\ http'.pc = "respond" /\ http'.route = "/healthz") =>
          /\ Len(hierarchy) >= 1 =>
                http'.body = [code |-> 200, message |-> "ready"]
          /\ Len(hierarchy) = 0 => http'.body.code = 503]_vars

\* the bulk build produced roots, both Namespaces were then deleted, and
\* the readiness check that followed answers 503
NotReadyAfterDeletesWitness ==
    /\ http.pc = "respond" /\ http.route = "/healthz"
    /\ http.body.code = 503
    /\ pc["build"] = "done"
    /\ last.op = "NamespaceDelete" /\ last.pre # <<>>
    /\ hierarchy = <<>>

RECURSIVE NameSorted(_)
\* the nodes of a sequence are in ascending order of name, and so are the
\* children of each of them, at every depth
NameSorted(nodes) ==
    /\ \A i \in 1..Len(nodes) - 1 :
          NameRank(nodes[i].name) <= NameRank(nodes[i + 1].name)
    /\ \A i \in 1..Len(nodes) : NameSorted(nodes[i].relatives)

\* the forests handed to readers: the messages the subscriber was sent or
\* is being sent, and the body of GET /state
HandedOut ==
    (IF ws.pc \in {"off", "connecting", "closed"} THEN {}
     ELSE SeqToSet(ws.got)
          \cup (IF ws.pc \in {"initial_send", "send", "lag_send"}
                THEN {ws.msg} ELSE {}))
    \cup (IF http.pc = "respond" /\ http.route = "/state"
          THEN {http.body} ELSE {})

\* a read hands out a forest and leaves the stored one as it is
ReadKeepsStoredOrder ==
    (ws' # ws \/ http' # http) => hierarchy' = hierarchy

\* C29: every forest handed to a reader has its roots and the children of
\* every node in ascending order of name, and no read reorders the stored
\* forest.
HandedOutNameSorted ==
    /\ [](\A f \in HandedOut : NameSorted(f))
    /\ [][ReadKeepsStoredOrder]_vars

\* a cluster whose Pod feed also delivers Pods without metadata.name,
\* without metadata.namespace, or without both
MalformedFeed ==
    [initNamespaces |-> {{}, {Namespace("a")}},
     initPods |-> {{}, {Pod("a", "x", Some(Web))}},
     initServices |-> {{}, {Service("a", "x", Some(Web))}},
     initHTTPRoutes |-> {{}, {HTTPRoute("a", "x", <<ServiceRef("x")>>)}},
     namespaces |-> {},
     pods |-> {Pod("a", "x", Some(Web)),
               [name |-> None, ns |-> Some("a"), labels |-> Some(Web)],
               [name |-> Some("x"), ns |-> None, labels |-> Some(Web)],
               [name |-> None, ns |-> None, labels |-> Some(Web)]},
     services |-> {},
     httproutes |-> {}]

InitMalformed == BuiltFrom(MalformedFeed)

SpecMalformed == InitMalformed /\ [][PollPod \/ PodApply \/ PodDelete]_vars

Malformed(obj) == obj.name = None \/ obj.ns = None

\* C30: a Pod notification whose object has no name or no namespace leaves
\* the forest exactly as it was, no node with an empty name exists, and the
\* Pod task is back waiting for its next notification.
MalformedDiscarded ==
    /\ (last.op \in {"PodApply", "PodDelete"} /\ Malformed(last.obj)) =>
          hierarchy = last.pre
    /\ \A o \in Occ : o.node.name # ""
    /\ pc["pod"] \in {"idle", "got"}

(***************************************************************************)
(* A watcher's stream yields Some(Err(err)): the Err arm of the task's     *)
(* match logs the error and the while-let loop takes the next item.        *)
(***************************************************************************)
StreamError(t) ==
    /\ pc[t] = "idle" /\ nEvents < MaxEvents
    /\ nEvents' = nEvents + 1
    /\ failed' = failed \cup {t}
    /\ UNCHANGED <<hierarchy, pod_store, service_store, namespace_store,
                   httproute_store, ready, pc, ev, snap, lock, last, feed, chg,
                   rd, graph, arg, ret, state_updates, ws, http>>

SpecFail == InitBuilt /\ [][Watchers \/ \E t \in Tasks : StreamError(t)]_vars

\* C31: once the stream of a kind has yielded a failure, the task of that
\* kind takes no further notification, and the step that delivers the
\* failure leaves the forest as it was.
FailureIsTerminal ==
    [][/\ \A t \in failed : pc'[t] = pc[t] /\ ev'[t] = ev[t]
       /\ failed' # failed => hierarchy' = hierarchy]_vars

(***************************************************************************)
(* extract_port_info, called on its own over lists of ServicePort.  A      *)
(* target port is None, Some(IntOrString::Int(i)) or                       *)
(* Some(IntOrString::String(s)); ports are the ones the API server admits. *)
(***************************************************************************)
MaxPorts == 2

IntTarget(i) == Some([int |-> i])
StringTarget(s) == Some([str |-> s])
IsInt(t) == \E v \in t : "int" \in DOMAIN v
IsString(t) == \E v \in t : "str" \in DOMAIN v
Unwrap(t) == CHOOSE v \in t : TRUE

ServicePorts ==
    [port : {80, 443},
     target_port : {None, IntTarget(80), IntTarget(8080), StringTarget("http")}]

DecimalDigits == <<"0", "1", "2", "3", "4", "5", "6", "7", "8", "9">>

RECURSIVE to_string(_)
\* i32::to_string of a non-negative number: its decimal digits
to_string(n) ==
    IF n < 10 THEN DecimalDigits[n + 1]
    ELSE to_string(n \div 10) \o DecimalDigits[(n % 10) + 1]

\* `as u32` of an i32 that is not negative (a port is in 1..65535): the
\* number itself
as_u32(i) == i

\* a mapping that never collapses identical values
port_mapping_uncollapsed(p) ==
    IF IsInt(p.target_port)
    THEN to_string(p.port) \o "→" \o to_string(Unwrap(p.target_port).int)
    ELSE IF IsString(p.target_port)
         THEN to_string(p.port) \o "→" \o Unwrap(p.target_port).str
         ELSE to_string(p.port)

port_mapping(p) ==
    IF IsInt(p.target_port)
    THEN IF Unwrap(p.target_port).int = p.port
         THEN to_string(p.port)
         ELSE to_string(p.port) \o "→" \o to_string(Unwrap(p.target_port).int)
    ELSE IF IsString(p.target_port)
         THEN to_string(p.port) \o "→" \o Unwrap(p.target_port).str
         ELSE to_string(p.port)

target_port(p) ==
    IF IsInt(p.target_port) THEN as_u32(Unwrap(p.target_port).int)
    ELSE as_u32(p.port)

extract_port_info(ports) ==
    [service_ports |-> MapSeq(LAMBDA p : as_u32(p.port), ports),
     port_mappings |-> MapSeq(port_mapping, ports),
     target_ports |-> MapSeq(target_port, ports),
     target_port_names |->
         MapSeq(LAMBDA p : Unwrap(p.target_port).str,
                SelectSeq(ports, LAMBDA p : IsString(p.target_port)))]

\* every variable of the running program at rest
AtRest ==
    /\ hierarchy = <<>>
    /\ pod_store = {} /\ service_store = {}
    /\ namespace_store = {} /\ httproute_store = {}
    /\ ready = [k \in Tasks |-> FALSE]
    /\ pc = [t \in Tasks \cup {"build"} |-> IF t = "build" THEN "wait" ELSE "idle"]
    /\ ev = [t \in Tasks |-> NoEv]
    /\ snap = [t \in Tasks \cup {"build"} |-> EmptySnap]
    /\ lock = "free"
    /\ last = [op |-> "None"]
    /\ feed = MainFeed
    /\ chg = NoChg
    /\ rd = [n |-> 0, torn |-> FALSE]
    /\ graph = EmptyGraph
    /\ state_updates = NoReceiver
    /\ ws = NoSocket
    /\ http = NoRequest
    /\ failed = {}
    /\ nEvents = 0

Program ==
    <<hierarchy, pod_store, service_store, namespace_store, httproute_store,
      ready, pc, ev, snap, lock, last, feed, chg, rd, graph, state_updates, ws,
      http, failed, nEvents>>

PortLists == UNION {[1..n -> ServicePorts] : n \in 0..MaxPorts}

InitPorts ==
    /\ AtRest
    /\ arg \in {[f |-> "extract_port_info", ports |-> ports] : ports \in PortLists}
    /\ ret = NoCall

CallExtractPortInfo ==
    /\ arg.f = "extract_port_info" /\ ret = NoCall
    /\ ret' = [f |-> arg.f, info |-> extract_port_info(arg.ports)]
    /\ UNCHANGED <<Program, arg>>

SpecPorts == InitPorts /\ [][CallExtractPortInfo]_vars

\* the decimal numeral of n
Numeral(n) == ToString(n)

\* C32: per entry and in input order, the mapping is "p" when the target is
\* absent or the number p, "p→t" for another number t and "p→name" for a
\* symbolic target; target_ports has t for a numeric target and p
\* otherwise; target_port_names has exactly the symbolic names; service_ports
\* has every p; the empty list gives four empty results.
PortInfoAsDocumented ==
    ret.f = "extract_port_info" =>
        LET ports == arg.ports
            info == ret.info
            n == Len(ports)
            symbolic == SelectSeq(ports, LAMBDA p : IsString(p.target_port))
        IN /\ Len(info.service_ports) = n /\ Len(info.port_mappings) = n
           /\ Len(info.target_ports) = n
           /\ Len(info.target_port_names) = Len(symbolic)
           /\ \A i \in 1..n :
                LET p == ports[i].port
                    t == ports[i].target_port
                IN /\ info.service_ports[i] = p
                   /\ (t = None \/ t = IntTarget(p)) =>
                         /\ info.port_mappings[i] = Numeral(p)
                         /\ info.target_ports[i] = p
                   /\ (IsInt(t) /\ t # IntTarget(p)) =>
                         /\ info.port_mappings[i] =
                                Numeral(p) \o "→" \o Numeral(Unwrap(t).int)
                         /\ info.target_ports[i] = Unwrap(t).int
                   /\ IsString(t) =>
                         /\ info.port_mappings[i] =
                                Numeral(p) \o "→" \o Unwrap(t).str
                         /\ info.target_ports[i] = p
           /\ \A j \in 1..Len(symbolic) :
                info.target_port_names[j] = Unwrap(symbolic[j].target_port).str

\* a list mixing a collapsed mapping and a symbolic target has been mapped
PortInfoWitness ==
    /\ ret.f = "extract_port_info"
    /\ arg.ports = <<[port |-> 80, target_port |-> IntTarget(80)],
                     [port |-> 443, target_port |-> StringTarget("http")]>>
    /\ ret.info.port_mappings = <<"80", "443→http">>
    /\ ret.info.target_port_names = <<"http">>

(***************************************************************************)
(* new_service's external_ips, called on its own.  A Service is given by   *)
(* spec.externalIPs and status.loadBalancer.ingress, each level optional;  *)
(* an ingress entry has an optional ip and an optional hostname.           *)
(***************************************************************************)
MaxIngress == 2

Ingresses == [ip : {None, Some("192.0.2.1")}, hostname : {None, Some("lb.example")}]

IngressLists == UNION {[1..n -> Ingresses] : n \in 0..MaxIngress}

Statuses ==
    {None, Some([load_balancer |-> None]),
     Some([load_balancer |-> Some([ingress |-> None])])}
    \cup {Some([load_balancer |-> Some([ingress |-> Some(l)])]) : l \in IngressLists}

ExternalIPLists == {None, Some(<<>>), Some(<<"10.0.0.1">>), Some(<<"10.0.0.1", "10.0.0.2">>)}

\* extract_resource_metadata, Service arm: spec.external_ips unless empty
spec_external_ips(service) ==
    IF service.external_ips # None /\ Unwrap(service.external_ips) # <<>>
    THEN service.external_ips ELSE None

\* ingress.ip.as_ref().or(ingress.hostname.as_ref())
ingress_address(ingress) ==
    IF ingress.ip # None THEN ingress.ip ELSE ingress.hostname

extract_load_balancer_ips(service) ==
    IF service.status = None THEN <<>>
    ELSE IF Unwrap(service.status).load_balancer = None THEN <<>>
    ELSE IF Unwrap(Unwrap(service.status).load_balancer).ingress = None THEN <<>>
    ELSE LET ingress_list == Unwrap(Unwrap(Unwrap(service.status).load_balancer).ingress)
         IN MapSeq(LAMBDA i : Unwrap(ingress_address(i)),
                   SelectSeq(ingress_list, LAMBDA i : ingress_address(i) # None))

\* resource_metadata.external_ips of the node new_service returns
new_service_external_ips(service) ==
    LET lb_ips == extract_load_balancer_ips(service)
    IN IF lb_ips # <<>> THEN Some(lb_ips) ELSE spec_external_ips(service)

InitExternalIps ==
    /\ AtRest
    /\ arg \in {[f |-> "new_service", external_ips |-> e, status |-> s] :
                    e \in ExternalIPLists, s \in Statuses}
    /\ ret = NoCall

CallNewService ==
    /\ arg.f = "new_service" /\ ret = NoCall
    /\ ret' = [f |-> arg.f, external_ips |-> new_service_external_ips(arg)]
    /\ UNCHANGED <<Program, arg>>

SpecExternalIps == InitExternalIps /\ [][CallNewService]_vars

\* the addresses of spec.externalIPs, and the ingress entries of the status
DeclaredIPs == IF arg.external_ips = None THEN <<>> ELSE Unwrap(arg.external_ips)

IngressEntries ==
    IF arg.status = None THEN <<>>
    ELSE IF Unwrap(arg.status).load_balancer = None THEN <<>>
    ELSE IF Unwrap(Unwrap(arg.status).load_balancer).ingress = None THEN <<>>
    ELSE Unwrap(Unwrap(Unwrap(arg.status).load_balancer).ingress)

\* C33: the node's external_ips holds every address of spec.externalIPs
\* and, for each load-balancer ingress entry, its IP when set and otherwise
\* its hostname; it is absent only when spec.externalIPs is empty and no
\* ingress entry has an address.
ExternalIpsFromBothSources ==
    ret.f = "new_service" =>
        LET held == IF ret.external_ips = None THEN {}
                    ELSE SeqToSet(Unwrap(ret.external_ips))
        IN /\ SeqToSet(DeclaredIPs) \subseteq held
           /\ \A i \in 1..Len(IngressEntries) :
                LET e == IngressEntries[i]
                IN /\ e.ip # None => Unwrap(e.ip) \in held
                   /\ (e.ip = None /\ e.hostname # None) =>
                         Unwrap(e.hostname) \in held
           /\ ret.external_ips = None =>
                 /\ DeclaredIPs = <<>>
                 /\ \A i \in 1..Len(IngressEntries) :
                       ingress_address(IngressEntries[i]) = None

\* the keys listed as children of parent key p
ChildKeys(p) == {graph.edges[p][i].id : i \in 1..Len(graph.edges[p])}

\* C34: in the Graph, reverse[c] = p exactly when c is in edges[p], every
\* child is in the edge list of at most one parent and at most once in it,
\* and every key of edges or reverse is the key of an existing node.
IndexesAgree ==
    /\ \A c \in DOMAIN graph.reverse :
          /\ graph.reverse[c] \in DOMAIN graph.edges
          /\ c \in ChildKeys(graph.reverse[c])
    /\ \A p \in DOMAIN graph.edges : \A c \in ChildKeys(p) :
          c \in DOMAIN graph.reverse /\ graph.reverse[c] = p
    /\ \A p, q \in DOMAIN graph.edges :
          p # q => ChildKeys(p) \cap ChildKeys(q) = {}
    /\ \A p \in DOMAIN graph.edges : \A i, j \in 1..Len(graph.edges[p]) :
          graph.edges[p][i].id = graph.edges[p][j].id => i = j
    /\ DOMAIN graph.edges \subseteq DOMAIN graph.nodes
    /\ DOMAIN graph.reverse \subseteq DOMAIN graph.nodes

\* the kinds a node of kind k may be the direct child of
ParentKinds(k) ==
    CASE k = "HTTPRoute" -> {"Namespace"}
      [] k = "Service" -> {"Namespace", "HTTPRoute"}
      [] k = "Pod" -> {"Namespace", "Service"}
      [] OTHER -> {}

\* C35: the roots are Namespace nodes; a Route is a direct child of a root
\* only, a Service of a root or of a Route, a Pod of a root or of a Service,
\* and a Pod has no children, so no path is longer than
\* Namespace, Route, Service, Pod.
KindsLayered ==
    \A o \in Occ :
        /\ Len(o.anc) = 0 => KindOf(o.id) = "Namespace"
        /\ Len(o.anc) > 0 => KindOf(Parent(o)) \in ParentKinds(KindOf(o.id))
        /\ Len(o.anc) = 1 => KindOf(Parent(o)) = "Namespace"
        /\ Len(o.anc) <= 3

\* a Pod notification has put its Pod at the end of a path of four kinds
KindsLayeredWitness ==
    /\ last.op = "PodApply"
    /\ \E o \in Occ :
          /\ o.id = <<"Pod", last.obj.ns, UnwrapStr(last.obj.name)>>
          /\ Len(o.anc) = 3
          /\ KindOf(o.anc[1]) = "Namespace" /\ KindOf(o.anc[2]) = "HTTPRoute"
          /\ KindOf(o.anc[3]) = "Service"

\* the roots of a forest other than the one named name, in order
OtherRoots(h, name) == SelectSeq(h, LAMBDA n : n.name # name)

RootNames(h) == [i \in 1..Len(h) |-> h[i].name]

\* C36: a Pod, Service or Route notification of namespace A leaves the
\* roots and their order as they were and the subtree of every root but A's
\* unchanged; a Namespace notification for A changes nothing but the
\* presence of A's own root.
OtherNamespacesUntouched ==
    /\ (last.op \in {"PodApply", "PodDelete", "ServiceApply", "ServiceDelete",
                     "HTTPRouteApply", "HTTPRouteDelete"}) =>
          /\ RootNames(hierarchy) = RootNames(last.pre)
          /\ OtherRoots(hierarchy, UnwrapStr(last.obj.ns))
                = OtherRoots(last.pre, UnwrapStr(last.obj.ns))
    /\ (last.op \in {"NamespaceApply", "NamespaceDelete"}) =>
          /\ OtherRoots(hierarchy, UnwrapStr(last.obj.name))
                = OtherRoots(last.pre, UnwrapStr(last.obj.name))
          /\ last.op = "NamespaceApply" =>
                /\ HasRoot(hierarchy, UnwrapStr(last.obj.name))
                /\ Len(hierarchy) =
                      Len(last.pre)
                      + (IF HasRoot(last.pre, UnwrapStr(last.obj.name)) THEN 0 ELSE 1)
          /\ last.op = "NamespaceDelete" =>
                ~HasRoot(hierarchy, UnwrapStr(last.obj.name))

\* with the subtrees of a and b both populated, a Service of namespace a
\* was applied and changed a's subtree
OtherNamespacesUntouchedWitness ==
    /\ last.op = "ServiceApply" /\ last.obj.ns = Some("a")
    /\ hierarchy # last.pre
    /\ \E i \in 1..Len(hierarchy) :
          hierarchy[i].name = "b" /\ hierarchy[i].relatives # <<>>

\* the Service occurrences of the forest h outside the namespace ns
ServicesOutside(h, ns) ==
    {o \in Occurrences(h, <<>>, <<>>) : KindOf(o.id) = "Service" /\ o.node.ns # ns}

\* C37: right after Delete(Route R) with R's Namespace root present, every
\* Service of R's namespace that the handler read from the cache has a node,
\* each of its nodes carries the cached Pods its selector selects and sits
\* directly under the Namespace root unless a Route node of the forest still
\* references the Service, and the Service nodes of other namespaces are as
\* they were.
RouteDeleteRestoresServices ==
    (last.op = "HTTPRouteDelete" /\ HasRoot(last.pre, UnwrapStr(last.obj.ns))) =>
        /\ \A s \in SeqToSet(last.snap.svcs) :
              s.ns = last.obj.ns =>
                LET routes == ReferencingRoutes(hierarchy, s)
                    copies == OccOf(ServiceId(s))
                IN /\ copies # {}
                   /\ \A o \in copies :
                        /\ CarriesSelectedPods(o, s, last.snap.pods)
                        /\ IF routes = {}
                           THEN o.anc = <<NamespaceId(s.ns)>>
                           ELSE \E r \in routes : o \in ChildrenOf(r)
        /\ ServicesOutside(hierarchy, last.obj.ns)
              = ServicesOutside(last.pre, last.obj.ns)

(***************************************************************************)
(* The start of the program over clusters in which names collide: Pods of  *)
(* two namespaces with one name, and a Pod named like a Service.           *)
(***************************************************************************)
CollisionFeed ==
    [initNamespaces |-> {{Namespace("a")}, {Namespace("a"), Namespace("b")}},
     initPods |-> {{Pod("a", "y", Some(Web))},
                   {Pod("a", "x", Some(Api))},
                   {Pod("a", "x", Some(Web)), Pod("b", "x", Some(Web))}},
     initServices |-> {{}, {Service("a", "x", Some(Web))},
                       {Service("a", "x", Some(Web)), Service("b", "x", Some(Web))}},
     initHTTPRoutes |-> {{}, {HTTPRoute("a", "x", <<ServiceRef("x")>>)}},
     namespaces |-> {},
     pods |-> {},
     services |-> {},
     httproutes |-> {}]

SpecCollision == StartFrom(CollisionFeed) /\ [][Startup]_vars

\* the namespace of the object is one of the Namespace snapshot
InNamespaceSnapshot(obj) ==
    \E n \in SeqToSet(last.snap.nss) : n.name = obj.ns

\* C38: right after the bulk build, every Pod and every Service of the
\* snapshots whose namespace is in the Namespace snapshot has a node, and
\* two nodes of one Pod are the copies of a Service under distinct Routes.
BuildAttachesEveryObject ==
    (last.op = "Build" /\ pc["build"] = "done") =>
        /\ \A p \in SeqToSet(last.snap.pods) :
              InNamespaceSnapshot(p) =>
                /\ OccOf(PodId(p)) # {}
                /\ \A o1, o2 \in OccOf(PodId(p)) :
                        o1.path # o2.path => FanOut(o1, o2)
        /\ \A s \in SeqToSet(last.snap.svcs) :
              InNamespaceSnapshot(s) => OccOf(ServiceId(s)) # {}

\* C39: the messages one subscriber has been sent are in mutation order:
\* none is the forest of a mutation older than that of a message sent to it
\* before, unless the two forests are equal.
DeliveredInMutationOrder ==
    ws.pc \notin {"off", "closed"} =>
        \A i, j \in 1..Len(ws.marks) :
            i < j => ws.marks[i] <= ws.marks[j] \/ ws.got[i] = ws.got[j]

\* the kind of node a reconciler writes
ReconciledKind ==
    CASE last.op = "pod_reconciler" -> "Pod"
      [] last.op = "service_reconciler" -> "Service"
      [] last.op = "namespace_reconciler" -> "Namespace"

\* the node key of the object the last reconciliation handled
ReconciledKey ==
    IF last.op = "namespace_reconciler"
    THEN key(NodeId(UnwrapStr(last.obj.name), UnwrapStr(last.obj.name)))
    ELSE key(NodeId(UnwrapStr(last.obj.ns), UnwrapStr(last.obj.name)))

\* C40: right after a reconciliation that is not a deletion, the object has
\* a node of its own kind under its key, and the node that key held before,
\* if any, was a node of that same kind: no reconciliation writes over the
\* node of an object of another kind.
DistinctObjectsDistinctNodes ==
    (/\ last.op \in {"pod_reconciler", "service_reconciler", "namespace_reconciler"}
     /\ ~last.deleting) =>
        /\ ReconciledKey \in DOMAIN graph.nodes
        /\ graph.nodes[ReconciledKey].kind = ReconciledKind
        /\ ReconciledKey \in DOMAIN last.pre.nodes =>
              last.pre.nodes[ReconciledKey].kind = ReconciledKind

====
